---------------------------- MODULE Spec2Model ----------------------------
(***************************************************************************)
(* A model of the session/transport layer of btc_embedded (class EPRestApi *)
(* of src/btc_embedded/api.py).                                            *)
(*                                                                         *)
(*   SpecReq   one request (get/post/put/patch/delete) travelling through  *)
(*             <method>_req, _check_long_running, _poll_long_running and   *)
(*             _handle_error, against an engine that answers freely.       *)
(*   SpecLife  construction of a session (__init__, the launch,            *)
(*             _connect_within_timeout) followed by close_application.     *)
(*   SpecPrefs _apply_preferences; SpecPort _find_next_port; SpecProf the  *)
(*             translation of a profile-load GET; SpecMl the ports of a    *)
(*             launch on Windows; SpecMsgs get_messages; SpecLog           *)
(*             get_errors_from_log; SpecWatch the watcher threads;         *)
(*             SpecMark the message marker and the prechecks.              *)
(*   SpecLock  the lock file of src/btc_embedded/portRegistry.py.          *)
(*                                                                         *)
(* Wall-clock time is an integer number of seconds.  A string is the       *)
(* sequence of its character codes, so that Python's str comparison is     *)
(* the lexicographic order computed by StrLess.                            *)
(***************************************************************************)
EXTENDS Integers, Sequences, FiniteSets, TLC

VARIABLES
    \* ---- one request (SpecReq) ----
    version,      \* self.version of the session
    method,       \* the public wrapper that was called
    argTimeout,   \* the timeout the caller passed: <<>> is None, <<t>> is t
    pc,           \* position of the caller thread
    response,     \* local `response` of _check_long_running
    timeout,      \* local `timeout` of _check_long_running (after the version gate)
    start_time,   \* local `start_time` of _check_long_running
    cancelled,    \* local `cancelled` of _check_long_running
    now,          \* time.time()
    warned,       \* the "Timeout will not be considered" warning was logged
    initResp,     \* the response of the request itself
    polls,        \* outcomes of the progress requests, in order
    cancels,      \* the progress/cancel requests: elapsed time and outcome
    nMsg,         \* message-marker requests issued since _handle_error was entered
    diag,         \* what the outermost _handle_error frame has sent to the log
    heDepth,      \* number of _handle_error frames on the call stack
    heStage,      \* position of the innermost _handle_error frame
    heKind,       \* what str(e) of the innermost _handle_error frame contains
    heCtx,        \* the call site of the outermost _handle_error frame
    heLast,       \* how the latest finished _handle_error invocation ended
    failed,       \* a request of the main flow failed (transport or non-benign status)
    outcome,      \* how the public call ended
    retResp,      \* the response object handed back to the caller
    \* ---- construction and close of a session (SpecLife) ----
    platformSys,  \* platform.system()
    versionGiven, \* __init__ knows the version before its first health probe
    launchable,   \* the executable (and on Windows the REST add-on) is installed
    ownVer,       \* the launched engine reports the requested version, or another
    startupTimeout, \* the `timeout` of __init__
    force_new_port, \* the force_new_port of __init__
    foreign,      \* engines that were running before the session, by port
    lpc,          \* position of the caller thread in __init__ / close_application
    port,         \* self._PORT_, counted from the port the session started with
    ep_process,   \* self.ep_process is set
    actively_started,     \* self.actively_started
    definitively_closed,  \* self.definitively_closed
    ownPort,      \* the REST port given to the launched engine
    ownState,     \* the launched process: none, starting, serving, deaf, dead
    tnow,         \* time.time() - self.start_time
    closeStart,   \* local start_time of close_application
    obs,          \* what the latest cycle of _connect_within_timeout observed
    nProbes,      \* health probes made by _connect_within_timeout
    forceQuit,    \* the force-quit request was issued
    signals,      \* os.kill calls made by close_application
    sigInfo,      \* the close loop at its first os.kill
    closeProbes,  \* health probes of close_application up to its first os.kill
                  \* or its end: succeeded, failed
    lexc,         \* the exception that ended __init__ or close_application
    prefsSent,    \* _apply_preferences: "pending", or it has "sent" its PUTs
    versionSet,   \* self.version is assigned
    \* ---- _apply_preferences (SpecPrefs) ----
    hasPrefs,     \* config and 'preferences' in config
    keys,         \* list(config['preferences'].keys())
    kidx,         \* position of the loop over the keys
    preferences,  \* local `preferences`
    user_defined_datetime_format,
    puts,         \* the PUT requests on 'preferences', in order
    apc,          \* position of the caller thread in _apply_preferences
    pidx,         \* position of the loop over `preferences`
    successfully_applied,
    failedReports,  \* "Failed to apply preference" entries logged
    aexc,         \* the exception that left _apply_preferences
    \* ---- _find_next_port (SpecPort) ----
    listening,    \* the ports of the host on which something listens
    initial_port, \* parameter initial_port
    errAt,        \* the probe at which the host cannot be resolved (0: none)
    open_port,    \* local `open_port`
    port_found,   \* local `port_found`
    fpc,          \* position of the caller thread in _find_next_port
    probed,       \* the ports handed to is_port_in_use, in order
    probeErr,     \* the exception the latest probe raised
    fresult,      \* the port returned
    fexc,         \* the exception that left _find_next_port
    \* ---- a profile-load GET (SpecProf) ----
    profStyle,    \* the form the caller used: "profiles" or "openprofile"
    profPath,     \* the path of the project file the caller means
    preEncoded,   \* the caller URL-encoded the path
    isLocal,      \* self._is_localhost()
    fileExists,   \* os.path.isfile of the path the adapter extracted
    urlappendix,  \* parameter urlappendix of get_req
    ppc,          \* position of the caller thread in get_req
    url_combined, \* what _precheck_get returned
    pexc,         \* the exception that left _precheck_get
    httpSent,     \* the URLs handed to requests.get
    watchers,     \* _watch_profile_migration threads started
    markerSet,     \* _set_message_marker was called
    \* ---- the ports of a launch on Windows (SpecMl) ----
    ctorPort,     \* parameter port of __init__
    busyRun,      \* so many ports from ctorPort upwards are in use
    mlForce,      \* parameter force_new_port of __init__
    mlAnswer,     \* what answers the first health probe: none, same, other
    sessPort,     \* int(self._PORT_)
    ml_port,      \* local `ml_port` of _start_app_windows
    restArg,      \* the value of -Dep.rest.port= in the command line
    apiArg,       \* the value of -Dep.runtime.api.port= in the command line
    mpc,          \* position of the caller thread in __init__
    \* ---- get_messages (SpecMsgs) ----
    hasMarker,    \* self.message_marker_date is set
    engineMsgs,   \* the messages the engine holds, in the order it sends them
    msgFetch,     \* what self.get(path) does: "list", "str" or "raises"
    messages,     \* local `messages` of get_messages
    gpc,          \* position of the caller thread in get_messages
    msgResult,    \* what get_messages returned
    \* ---- get_errors_from_log (SpecLog) ----
    logFile,      \* the lines of the engine's log file
    logStart,     \* parameter start_time of get_errors_from_log (0: none)
    lidx,         \* position of the loop over the lines
    current_entry,  \* local `current_entry`: <<>> is None, <<e>> is the text e
    log_entries,  \* local `log_entries`
    cleaned_log_entries,  \* local `cleaned_log_entries`, returned
    lgpc,         \* position of the caller thread in get_errors_from_log
    \* ---- the watcher of the profile migration (SpecWatch) ----
    the_watch_has_ended,  \* the module global: "unset", "True" or "False"
    helperActive, \* get_processes_by_name('ep_profilemigrate') finds a process
    wpc,          \* position of each _watch_profile_migration thread
    wsignalled,   \* _the_watch_has_ended set the flag after the thread was started
    wmissed,      \* the thread went on to another cycle after it was signalled
    wafter,       \* a request that is no profile request ended while the thread ran
    cpc,          \* position of the caller thread in get_req
    curForm,      \* the urlappendix of the request in flight
    nLoads,       \* watcher threads started
    nReqs,        \* requests that have ended
    \* ---- the message marker and the prechecks ----
    clock,                \* ticks since the start of the session
    message_marker_date,  \* self.message_marker_date, milliseconds
    markedAt,             \* the tick at which the marker was set last
    produced,             \* dates of the engine's messages since then
    asked,                \* the marker of the last get_messages request
    mreq,                 \* the last request and what the session did with it
    \* ---- the lock of the port registry ----
    lockFile,      \* the lock file: whether it exists, who created it, its age
    rpc,           \* position of each process in the two functions
    retried,       \* the creation failed and reservePortRegLock called itself
    rret,          \* what the call of reservePortRegLock returned
    clearedOther  \* clearPortRegLock removed a file another process created

reqVars == <<version, method, argTimeout, pc, response, timeout,
             start_time, cancelled, now, warned, initResp, polls, cancels, nMsg,
             diag, heDepth, heStage, heKind, heCtx, heLast, failed, outcome, retResp>>

lifeVars == <<platformSys, versionGiven, launchable, ownVer, startupTimeout,
              force_new_port, foreign, lpc, port, ep_process, actively_started,
              definitively_closed, ownPort, ownState, tnow, closeStart, obs,
              nProbes, forceQuit, signals, sigInfo, closeProbes, lexc,
              prefsSent, versionSet>>

\* _apply_preferences
prefVars == <<hasPrefs, keys, kidx, preferences, user_defined_datetime_format,
              puts, apc, pidx, successfully_applied, failedReports, aexc>>

\* _find_next_port
portVars == <<listening, initial_port, errAt, open_port, port_found, fpc,
              probed, probeErr, fresult, fexc>>

\* a profile-load GET
profVars == <<profStyle, profPath, preEncoded, isLocal, fileExists, urlappendix,
              ppc, url_combined, pexc, httpSent, watchers, markerSet>>

\* the ports of a launch on Windows (SpecMl)
mlVars == <<ctorPort, busyRun, mlForce, mlAnswer, sessPort, ml_port, restArg, apiArg, mpc>>

\* get_messages (SpecMsgs)
msgsVars == <<hasMarker, engineMsgs, msgFetch, messages, gpc, msgResult>>

\* get_errors_from_log (SpecLog)
logVars == <<logFile, logStart, lidx, current_entry, log_entries, cleaned_log_entries, lgpc>>

\* the watcher of the profile migration (SpecWatch)
watchVars == <<the_watch_has_ended, helperActive, wpc, wsignalled, wmissed, wafter, cpc, curForm, nLoads, nReqs>>

\* what __init__ has done after the startup wait
recVars == <<prefsSent, versionSet>>

\* the message marker and the prechecks
markVars == <<clock, message_marker_date, markedAt, produced, asked, mreq>>

\* the lock of the port registry
lockVars == <<lockFile, rpc, retried, rret, clearedOther>>

\* what the actions of each part leave alone
notReq == <<lifeVars, prefVars, portVars, profVars, mlVars, msgsVars, logVars, watchVars, markVars, lockVars>>
notLife == <<reqVars, prefVars, portVars, profVars, mlVars, msgsVars, logVars, watchVars, markVars, lockVars>>
notPrefs == <<reqVars, lifeVars, portVars, profVars, mlVars, msgsVars, logVars, watchVars, markVars, lockVars>>
notPort == <<reqVars, lifeVars, prefVars, profVars, mlVars, msgsVars, logVars, watchVars, markVars, lockVars>>
notProf == <<reqVars, lifeVars, prefVars, portVars, mlVars, msgsVars, logVars, watchVars, markVars, lockVars>>
notMl == <<reqVars, lifeVars, prefVars, portVars, profVars, msgsVars, logVars, watchVars, markVars, lockVars>>

notMsgs == <<reqVars, lifeVars, prefVars, portVars, profVars, mlVars, logVars, watchVars, markVars, lockVars>>

notLog == <<reqVars, lifeVars, prefVars, portVars, profVars, mlVars, msgsVars, watchVars, markVars, lockVars>>

notWatch == <<reqVars, lifeVars, prefVars, portVars, profVars, mlVars, msgsVars, logVars, markVars, lockVars>>

notMark == <<reqVars, lifeVars, prefVars, portVars, profVars, mlVars, msgsVars, logVars, watchVars, lockVars>>

notLock == <<reqVars, lifeVars, prefVars, portVars, profVars, mlVars, msgsVars, logVars, watchVars, markVars>>

vars == <<reqVars, lifeVars, prefVars, portVars, profVars, mlVars, msgsVars, logVars, watchVars, markVars, lockVars>>

-----------------------------------------------------------------------------
(* Bounds of the model *)

\* the engine reports a job as pending (202) at most this many times
MaxPolls == 2
\* an HTTP progress request takes 0..MaxDelay seconds
MaxDelay == 1
\* the caller passes a timeout of 0..MaxTimeout seconds, or none
MaxTimeout == 2

\* a health probe of the startup wait takes 0..MaxProbeDelay seconds
MaxProbeDelay == 1
\* the caller passes a startup timeout of 0..MaxStartupTimeout seconds
MaxStartupTimeout == 5
\* engines may already listen on the session's port and the MaxPort next ones
MaxPort == 1
\* os.kill calls are counted up to MaxSignals
MaxSignals == 2

\* config['preferences'] holds at most MaxPrefKeys keys
MaxPrefKeys == 2

\* the open-port search starts at one of the last PortWindow+1 port numbers
PortWindow == 3
\* a probe that cannot resolve the host is one of the first MaxErrAt probes
MaxErrAt == 2

\* the path of a project file has at most MaxPathLen characters
MaxPathLen == 3
\* the ports in use form a run of at most this many ports
MaxBusyRun == 100
\* the ports tried lie at most this far from a place where the secondary
\* port meets the port
PortSpread == 2
\* the engine holds at most this many messages
MaxMsgs == 3
\* the log file has at most this many lines
MaxLogLines == 3
\* the timestamps of the log file are 1..MaxLogTime
MaxLogTime == 2
\* profile loads of a session, each with its watcher thread
MaxLoads == 2
\* GET requests of a session
MaxWatchReqs == 3
\* ticks of the clock in a second, and ticks of a marker run
TicksPerSec == 2
MaxMarkTicks == 3
\* processes that use the port registry
NProcs == 2

(* Program constants *)

\* time.sleep(2) in _connect_within_timeout and in close_application
WAIT_INTERVAL == 2
\* (time.time() - start_time) > 10 in close_application
CLOSE_GRACE == 10

\* time.sleep(2) between two progress requests
POLL_INTERVAL == 2

\* while open_port <= 65535
PORT_MAX == 65535
\* the default of the parameter port of __init__
DEFAULT_PORT == 1337
\* ml_port = 29300 + (port % 100)
ML_BASE == 29300
ML_MOD == 100
\* int((time.time() + 1) * 1000)
MARKER_LEAD == 1
MILLIS == 1000
\* portRegistry.py: LOCK_MAX_LIFESPAN = 30, and time.sleep(0.5)
LOCK_MAX_LIFESPAN == 30
SLEEPS_PER_SEC == 2

-----------------------------------------------------------------------------
(* Strings and versions *)

Min(a, b) == IF a < b THEN a ELSE b

\* Python's a < b on str: the first differing character decides, a proper
\* prefix is smaller
StrLess(a, b) ==
    LET n == Min(Len(a), Len(b)) IN
    \/ \E i \in 1..n : a[i] < b[i] /\ \A j \in 1..(i-1) : a[j] = b[j]
    \/ Len(a) < Len(b) /\ \A j \in 1..n : a[j] = b[j]

\* "21.3p0", "25.3p0", "26.1p0" as character codes
V21_3p0 == <<50, 49, 46, 51, 112, 48>>
V25_3p0 == <<50, 53, 46, 51, 112, 48>>
V26_1p0 == <<50, 54, 46, 49, 112, 48>>
\* "24.3p0"
V24_3p0 == <<50, 52, 46, 51, 112, 48>>

Versions == {V21_3p0, V25_3p0, V26_1p0}

None == <<>>
Some(t) == <<t>>
Timeouts == {None} \cup {Some(t) : t \in 0..MaxTimeout}

Methods == {"get", "post", "put", "patch", "delete"}

-----------------------------------------------------------------------------
(* HTTP responses.  err tells which of the texts the code looks for is in   *)
(* the body: "benign" one of EXCLUDED_ERROR_MESSAGES, "notfound"            *)
(* MSG_RESOURCE_NOT_FOUND, "badreq" MSG_BAD_REQUEST, "other" none of them.  *)
(* job tells whether response.json()['jobID'] exists.                       *)

Resp(s, e, j) == [status |-> s, err |-> e, job |-> j]

\* requests.<method>(...) raised instead of returning a response
TransportFail == Resp(0, "transport", FALSE)

NoResp == Resp(0, "none", FALSE)

ErrResponses ==
    {Resp(404, "notfound", FALSE), Resp(400, "badreq", FALSE),
     Resp(400, "benign", FALSE), Resp(500, "other", FALSE)}

\* what the engine may answer to the request itself
InitOutcomes ==
    {TransportFail} \cup ErrResponses
        \cup {Resp(s, "none", j) : s \in {200, 201, 202}, j \in BOOLEAN}

\* what the engine may answer to a progress request: a progress report (202)
\* or the settled job; neither body carries a jobID
PollOutcomes(n) ==
    {TransportFail} \cup ErrResponses
        \cup {Resp(s, "none", FALSE) : s \in {200, 201}}
        \cup (IF n < MaxPolls THEN {Resp(202, "none", FALSE)} ELSE {})

\* what the engine may answer to progress/cancel
CancelOutcomes ==
    {TransportFail, Resp(200, "none", FALSE), Resp(500, "other", FALSE)}

\* what the engine may answer to message-markers/<date>/messages
MsgOutcomes ==
    {TransportFail, Resp(200, "none", FALSE), Resp(400, "benign", FALSE)}

\* requests.Response.ok
Ok(r) == r.status >= 200 /\ r.status < 400

\* the allow-list is not consulted
NotExcluded_Always(r) == TRUE

\* all(msg not in response_content for msg in EXCLUDED_ERROR_MESSAGES)
NotExcluded(r) == r.err # "benign"

\* the request raised, or _check_long_running sends its response to _handle_error
Fails(r) == r = TransportFail \/ (~Ok(r) /\ NotExcluded(r))

\* what str(e) contains for the exception built from r
ErrKind(r) == IF r.err \in {"notfound", "badreq"} THEN r.err ELSE "other"


-----------------------------------------------------------------------------
(* Parameter plumbing and the conditions of _check_long_running *)

\* get() calls get_req(urlappendix, message): its timeout is not passed on;
\* post/put/patch/delete pass theirs
WrapperTimeout(m, t) == IF m = "get" THEN None ELSE t

\* get_req calls _check_long_running(response, urlappendix, timeout): the
\* third positional parameter is payload, so the timeout parameter keeps its
\* default None; the other *_req pass (..., requestBody, timeout)
ClrTimeoutArg(m, t) == IF m = "get" THEN None ELSE t

\* the gate compares with "21.3p0" instead of "25.3p0"
TimeoutIgnored_Gate21(t, v) == t # None /\ StrLess(v, V21_3p0)

\* not timeout is None and self.version < '25.3p0'
TimeoutIgnored(t, v) == t # None /\ StrLess(v, V25_3p0)

\* every status above 200 counts as pending
KeepPolling_Above200(r) == r.status > 200

\* while response.status_code == 202
KeepPolling(r) == r.status = 202

\* not timeout is None and time.time()-start_time > timeout and not cancelled
ShouldCancel(t, elapsed, c) == t # None /\ elapsed > t[1] /\ ~c

\* the guard fires for the first frame already
AlreadyHandling_FromFirst(count) == count > 0

\* a guard that lets one more frame through
AlreadyHandling_Above3(count) == count > 3

\* count > 2, count the number of _handle_error frames on the stack
AlreadyHandling(count) == count > 2

\* MSG_RESOURCE_NOT_FOUND in str(e), or MSG_BAD_REQUEST in str(e)
SpecialCase(kind) == kind \in {"notfound", "badreq"}

Pending(ps) == Cardinality({i \in 1..Len(ps) : ps[i].status = 202})

-----------------------------------------------------------------------------
(* One request *)

inputs == <<version, method, argTimeout>>

InitReq ==
    /\ version \in Versions
    /\ method \in Methods
    /\ argTimeout \in Timeouts
    /\ pc = "send"
    /\ response = NoResp
    /\ timeout = None
    /\ start_time = 0
    /\ cancelled = FALSE
    /\ now = 0
    /\ warned = FALSE
    /\ initResp = NoResp
    /\ polls = <<>>
    /\ cancels = <<>>
    /\ nMsg = 0
    /\ diag = {}
    /\ heDepth = 0
    /\ heStage = "none"
    /\ heKind = "none"
    /\ heCtx = "none"
    /\ heLast = "none"
    /\ failed = FALSE
    /\ outcome = "none"
    /\ retResp = NoResp

\* the outermost _handle_error frame sends `what` to the log; the frames
\* below it (failures of the message request) are not recorded
Told(what) == IF heDepth = 1 THEN diag \cup {what} ELSE diag

\* self._handle_error(e, ...) is called from call site ctx
EnterHE(ctx, kind) ==
    /\ pc' = "he"
    /\ heCtx' = ctx
    /\ heDepth' = 1
    /\ heStage' = "enter"
    /\ heKind' = kind
    /\ nMsg' = 0
    /\ diag' = {}
    /\ failed' = (failed \/ ctx # "cancel")
    /\ UNCHANGED <<heLast, outcome, retResp>>

NoHE == UNCHANGED <<heDepth, heStage, heKind, heCtx, heLast, failed, nMsg, diag>>

\* return response
Return(r) ==
    /\ pc' = "done"
    /\ outcome' = "returned"
    /\ retResp' = r

\* the clause `except BtcApiException as e: raise e` is missing: the failure
\* of a progress request is passed over by `except Exception` and `response`
\* is returned
Raise_PollFailureSwallowed ==
    /\ heLast' = "BtcApiException"
    /\ IF heDepth > 1
       THEN /\ heDepth' = heDepth - 1
            /\ heStage' = "log"
            /\ UNCHANGED <<pc, outcome, retResp>>
       ELSE /\ heDepth' = 0
            /\ heStage' = "none"
            /\ IF heCtx = "cancel"
               THEN pc' = "loop" /\ UNCHANGED <<outcome, retResp>>
               ELSE IF heCtx \in {"poll1", "loop"}
               THEN Return(response)
               ELSE pc' = "done" /\ outcome' = "BtcApiException" /\ retResp' = retResp

\* the bare except around the cancel request is missing: its failure reaches
\* the caller
Raise_CancelEscapes ==
    /\ heLast' = "BtcApiException"
    /\ IF heDepth > 1
       THEN /\ heDepth' = heDepth - 1
            /\ heStage' = "log"
            /\ UNCHANGED <<pc, outcome, retResp>>
       ELSE /\ heDepth' = 0
            /\ heStage' = "none"
            /\ pc' = "done" /\ outcome' = "BtcApiException" /\ retResp' = retResp

\* raise BtcApiException(e): the innermost _handle_error frame ends.  Below
\* another _handle_error frame it was called under get_messages, whose bare
\* except swallows the exception (lines 303-312); the outermost one raises
\* into its call site:
\*   the request itself, or line 493: nothing catches it;
\*   a progress request (lines 494-510): BtcApiException is re-raised;
\*   the cancel request (lines 501-506): the bare except logs a warning.
Raise ==
    /\ heLast' = "BtcApiException"
    /\ IF heDepth > 1
       THEN /\ heDepth' = heDepth - 1
            /\ heStage' = "log"
            /\ UNCHANGED <<pc, outcome, retResp>>
       ELSE /\ heDepth' = 0
            /\ heStage' = "none"
            /\ IF heCtx = "cancel"
               THEN pc' = "loop" /\ UNCHANGED <<outcome, retResp>>
               ELSE pc' = "done" /\ outcome' = "BtcApiException" /\ retResp' = retResp

\* <method>_req up to the response of requests.<method>
SendRequest ==
    /\ pc = "send"
    /\ \E o \in InitOutcomes :
        /\ initResp' = o
        /\ IF o = TransportFail
           THEN EnterHE("send", "other") /\ UNCHANGED response
           ELSE /\ pc' = "clr"
                /\ response' = o
                /\ NoHE
                /\ UNCHANGED <<outcome, retResp>>
    /\ UNCHANGED <<notReq, inputs, timeout, start_time, cancelled, now, warned, polls,
                   cancels>>

\* _check_long_running, lines 482-495
CheckLongRunning ==
    /\ pc = "clr"
    /\ start_time' = now
    /\ cancelled' = FALSE
    /\ LET t == ClrTimeoutArg(method, WrapperTimeout(method, argTimeout)) IN
        /\ warned' = TimeoutIgnored(t, version)
        /\ timeout' = IF TimeoutIgnored(t, version) THEN None ELSE t
    /\ IF ~Ok(response) /\ NotExcluded(response)
       THEN EnterHE("clr", ErrKind(response))
       ELSE /\ NoHE
            /\ IF response.job
               THEN pc' = "poll1" /\ UNCHANGED <<outcome, retResp>>
               ELSE Return(response)
    /\ UNCHANGED <<notReq, inputs, response, now, initResp, polls, cancels>>

\* self._poll_long_running(job_id): get_req of the progress endpoint, after
\* `sleep` seconds; a response goes to `response` and the thread on to `next`
Poll(ctx, sleep, next) ==
    \E d \in 0..MaxDelay, o \in PollOutcomes(Pending(polls)) :
        /\ now' = now + sleep + d
        /\ polls' = Append(polls, o)
        /\ IF Fails(o)
           THEN EnterHE(ctx, ErrKind(o)) /\ UNCHANGED response
           ELSE /\ response' = o
                /\ pc' = next
                /\ NoHE
                /\ UNCHANGED <<outcome, retResp>>
        /\ UNCHANGED <<notReq, inputs, timeout, start_time, cancelled, warned, initResp,
                       cancels>>

\* line 496
FirstPoll ==
    /\ pc = "poll1"
    /\ Poll("poll1", 0, "loop")

\* lines 497-499
LoopPoll ==
    /\ pc = "loop"
    /\ KeepPolling(response)
    /\ Poll("loop", POLL_INTERVAL, "tchk")

\* lines 497, 511
ReturnFinal ==
    /\ pc = "loop"
    /\ ~KeepPolling(response)
    /\ Return(response)
    /\ NoHE
    /\ UNCHANGED <<notReq, inputs, response, timeout, start_time, cancelled, now, warned,
                   initResp, polls, cancels>>

\* lines 500-506, the condition holds: get_req("progress/cancel", ...)
CancelRequest ==
    /\ pc = "tchk"
    /\ ShouldCancel(timeout, now - start_time, cancelled)
    /\ \E o \in CancelOutcomes :
        /\ cancels' = Append(cancels, [at |-> now - start_time, ok |-> ~Fails(o)])
        /\ IF Fails(o)
           THEN EnterHE("cancel", ErrKind(o)) /\ UNCHANGED cancelled
           ELSE /\ cancelled' = TRUE
                /\ pc' = "loop"
                /\ NoHE
                /\ UNCHANGED <<outcome, retResp>>
    /\ UNCHANGED <<notReq, inputs, response, timeout, start_time, now, warned, initResp,
                   polls>>

\* line 500, the condition does not hold
SkipCancel ==
    /\ pc = "tchk"
    /\ ~ShouldCancel(timeout, now - start_time, cancelled)
    /\ pc' = "loop"
    /\ NoHE
    /\ UNCHANGED <<notReq, inputs, response, timeout, start_time, cancelled, now, warned,
                   initResp, polls, cancels, outcome, retResp>>

\* _handle_error, lines 220-232: the guard, then the targeted explanation of
\* the two special cases, or "Encountered error: {e}"
HandleErrorEnter ==
    /\ pc = "he"
    /\ heStage = "enter"
    /\ IF AlreadyHandling(heDepth)
       THEN Raise /\ UNCHANGED diag
       ELSE IF SpecialCase(heKind)
       THEN Raise /\ diag' = Told("explained")
       ELSE /\ heStage' = "msgs"
            /\ diag' = Told("cause")
            /\ UNCHANGED <<pc, heDepth, heLast, outcome, retResp>>
    /\ UNCHANGED <<notReq, inputs, response, timeout, start_time, cancelled, now, warned,
                   initResp, polls, cancels, nMsg, heKind, heCtx, failed>>

\* _handle_error, lines 234-239: get_messages issues one request through
\* get(); a failure of it enters _handle_error once more, under this frame
GetMessages ==
    /\ pc = "he"
    /\ heStage = "msgs"
    /\ nMsg' = nMsg + 1
    /\ \E o \in MsgOutcomes :
        IF Fails(o)
        THEN /\ heDepth' = heDepth + 1
             /\ heStage' = "enter"
             /\ heKind' = ErrKind(o)
             /\ UNCHANGED diag
        ELSE /\ heStage' = "log"
             /\ diag' = Told("messages")
             /\ UNCHANGED <<heDepth, heKind>>
    /\ UNCHANGED <<notReq, inputs, pc, response, timeout, start_time, cancelled, now,
                   warned, initResp, polls, cancels, heCtx, heLast, failed,
                   outcome, retResp>>

\* _handle_error, lines 241-248: get_errors_from_log reads a log the engine
\* wrote (every timestamp-shaped prefix is a date), then the final raise
ReadLog ==
    /\ pc = "he"
    /\ heStage = "log"
    /\ diag' = Told("log")
    /\ Raise
    /\ UNCHANGED <<notReq, inputs, response, timeout, start_time, cancelled, now, warned,
                   initResp, polls, cancels, nMsg, heKind, heCtx, failed>>

NextReq ==
    \/ SendRequest
    \/ CheckLongRunning
    \/ FirstPoll
    \/ LoopPoll
    \/ ReturnFinal
    \/ CancelRequest
    \/ SkipCancel
    \/ HandleErrorEnter
    \/ GetMessages
    \/ ReadLog


-----------------------------------------------------------------------------
(* _find_next_port *)

PortRange == (PORT_MAX - PortWindow)..PORT_MAX

\* is_port_in_use(p, host), the n-th probe of the search: socket.connect_ex
\* raises gaierror when the host is not resolved and OverflowError for a port
\* number above 65535; otherwise it tells whether something listens on p
ProbeRaises(n, p) ==
    IF n = errAt THEN "gaierror"
    ELSE IF p > PORT_MAX THEN "OverflowError"
    ELSE "none"

InUse(p) == p \in listening

\* the search goes on two ports further
NextPortNo_Skip(p) == p + 2

\* open_port += 1
NextPortNo(p) == p + 1

InitPort ==
    /\ listening \in SUBSET PortRange
    /\ initial_port \in PortRange
    /\ errAt \in 0..MaxErrAt
    /\ open_port = initial_port
    /\ port_found = FALSE
    /\ fpc = "first"
    /\ probed = <<>>
    /\ probeErr = "none"
    /\ fresult = 0
    /\ fexc = "none"

\* lines 937-943: the first probe, inside try / except
FindFirstProbe ==
    /\ fpc = "first"
    /\ probed' = Append(probed, open_port)
    /\ probeErr' = ProbeRaises(1, open_port)
    /\ IF ProbeRaises(1, open_port) # "none"
       THEN /\ fpc' = "done"
            /\ fresult' = initial_port
            /\ UNCHANGED port_found
       ELSE /\ fpc' = "loop"
            /\ port_found' = ~InUse(open_port)
            /\ UNCHANGED fresult
    /\ UNCHANGED <<notPort, listening, initial_port, errAt, open_port, fexc>>

\* lines 944-947: one turn of the loop; nothing catches what the probe raises
FindLoopStep ==
    /\ fpc = "loop"
    /\ open_port <= PORT_MAX /\ ~port_found
    /\ LET p == NextPortNo(open_port)
           n == Len(probed) + 1
       IN  /\ open_port' = p
           /\ probed' = Append(probed, p)
           /\ probeErr' = ProbeRaises(n, p)
           /\ IF ProbeRaises(n, p) # "none"
              THEN /\ fpc' = "done"
                   /\ fexc' = ProbeRaises(n, p)
                   /\ UNCHANGED port_found
              ELSE /\ port_found' = ~InUse(p)
                   /\ UNCHANGED <<fpc, fexc>>
    /\ UNCHANGED <<notPort, listening, initial_port, errAt, fresult>>

\* lines 949-952
FindEnd ==
    /\ fpc = "loop"
    /\ ~(open_port <= PORT_MAX /\ ~port_found)
    /\ fpc' = "done"
    /\ IF open_port > PORT_MAX
       THEN fexc' = "BtcApiException" /\ UNCHANGED fresult
       ELSE fresult' = open_port /\ UNCHANGED fexc
    /\ UNCHANGED <<notPort, listening, initial_port, errAt, open_port, port_found,
                   probed, probeErr>>

NextPort ==
    \/ FindFirstProbe
    \/ FindLoopStep
    \/ FindEnd

-----------------------------------------------------------------------------
(* Construction and close of a session *)

lifeInputs == <<platformSys, versionGiven, launchable, ownVer, startupTimeout,
                force_new_port>>

NoObs == [seen |-> FALSE, ok |-> FALSE, elapsed |-> 0, alive |-> "unchecked"]
Obs(o, e, a) == [seen |-> TRUE, ok |-> o, elapsed |-> e, alive |-> a]

NoSig == [at |-> 0, ok |-> 0, failed |-> 0]

\* the engine that answers GET /test on port p: one that ran before the
\* session, or the launched one once it serves; "none" is a ConnectionError
Answer(p) ==
    IF p \in DOMAIN foreign /\ foreign[p] # "none" THEN foreign[p]
    ELSE IF ownState = "serving" /\ ownPort = p THEN ownVer
    ELSE "none"

\* _is_rest_service_available: response.ok, and with a requested version the
\* version of openapi.json equals it
Available(k, withVersion) == k # "none" /\ ~(withVersion /\ k = "other")

\* _is_rest_service_available: self._PORT_ = str(int(old_port) + 1) when the
\* engine on the port has another version than the requested one
PortAfterProbe(p, k, withVersion) ==
    IF withVersion /\ k = "other" THEN p + 1 ELSE p

\* a wait that allows itself one more cycle
ConnectTimedOut_CycleLate(elapsed, t) == elapsed > t + WAIT_INTERVAL

\* (time.time() - self.start_time) > timeout
ConnectTimedOut(elapsed, t) == elapsed > t

\* the liveness test is left out
StillAlive_NotChecked == TRUE

\* _is_ep_process_still_alive: self.ep_process and self.ep_process.poll() is None
StillAlive == ep_process /\ ownState # "dead"

\* the grace period counts as over when exactly 10 seconds have passed
GraceOver_AtLeast(elapsed) == elapsed >= CLOSE_GRACE

\* (time.time() - start_time) > 10
GraceOver(elapsed) == elapsed > CLOSE_GRACE

\* the port the engine is told to serve on: self._PORT_ on Windows
\* (-Dep.rest.port), the environment's REST_PORT ('8080', the port a Linux
\* session starts with) on Linux
LaunchPort(sys, p) == IF sys = "Windows" THEN p ELSE 0

\* something listens on port p of the host: an engine that ran before the
\* session
Busy(p) == p \in DOMAIN foreign /\ foreign[p] # "none"

\* the loop of _find_next_port when every probe answers
RECURSIVE FindFrom(_)
FindFrom(p) == IF Busy(p) THEN FindFrom(NextPortNo(p)) ELSE p

InitLife ==
    /\ platformSys \in {"Windows", "Linux"}
    /\ versionGiven \in BOOLEAN
    /\ launchable \in BOOLEAN
    /\ ownVer \in {"same", "other"}
    /\ startupTimeout \in 0..MaxStartupTimeout
    /\ force_new_port \in BOOLEAN
    /\ foreign \in [0..MaxPort -> {"none", "same", "other"}]
    /\ lpc = IF force_new_port THEN "search" ELSE "start"
    /\ port = 0
    /\ ep_process = FALSE
    /\ actively_started = FALSE
    /\ definitively_closed = FALSE
    /\ ownPort = 0
    /\ ownState = "none"
    /\ tnow = 0
    /\ closeStart = 0
    /\ obs = NoObs
    /\ nProbes = 0
    /\ forceQuit = FALSE
    /\ signals = 0
    /\ sigInfo = NoSig
    /\ closeProbes = <<0, 0>>
    /\ lexc = "none"
    /\ prefsSent = "pending"
    /\ versionSet = FALSE

\* __init__, lines 98-100: with force_new_port the session's port becomes
\* the result of _find_next_port; an engine that runs on a port listens on
\* it.  The first probe of the search may raise (the search then answers
\* the starting port), and so may a later one (nothing catches it)
SearchPort ==
    /\ lpc = "search"
    /\ \E e \in {"none", "first", "later"} :
        /\ e = "later" => Busy(port)
        /\ IF e = "later"
           THEN /\ lpc' = "failed"
                /\ lexc' = "OSError"
                /\ UNCHANGED port
           ELSE /\ lpc' = "start"
                /\ port' = IF e = "first" THEN port ELSE FindFrom(port)
                /\ UNCHANGED lexc
    /\ UNCHANGED <<notLife, recVars, lifeInputs, foreign, ep_process, actively_started,
                   definitively_closed, ownPort, ownState, tnow, closeStart, obs,
                   nProbes, forceQuit, signals, sigInfo, closeProbes>>

\* __init__, lines 125-128: the first health probe; a running engine of the
\* requested version (of any version, when none is requested) is attached to
FirstProbe ==
    /\ lpc = "start"
    /\ LET k == Answer(port) IN
        /\ port' = PortAfterProbe(port, k, versionGiven)
        /\ lpc' = IF Available(k, versionGiven) THEN "prefs" ELSE "launch"
    /\ UNCHANGED <<notLife, recVars, lifeInputs, foreign, ep_process, actively_started,
                   definitively_closed, ownPort, ownState, tnow, closeStart, obs,
                   nProbes, forceQuit, signals, sigInfo, closeProbes, lexc>>

\* __init__, lines 131-132: _start_app_windows raises BtcApiException without
\* version and install location, without the executable or without the
\* add-on; otherwise subprocess.Popen starts the engine
Launch ==
    /\ lpc = "launch"
    /\ IF ~launchable \/ (platformSys = "Windows" /\ ~versionGiven)
       THEN /\ lpc' = "failed"
            /\ lexc' = IF platformSys = "Windows" THEN "BtcApiException" ELSE "OSError"
            /\ UNCHANGED <<ep_process, actively_started, ownPort, ownState>>
       ELSE /\ lpc' = "connect"
            /\ ep_process' = TRUE
            /\ actively_started' = TRUE
            /\ ownPort' = LaunchPort(platformSys, port)
            /\ ownState' = "starting"
            /\ lexc' = lexc
    /\ UNCHANGED <<notLife, recVars, lifeInputs, foreign, port, definitively_closed, tnow,
                   closeStart, obs, nProbes, forceQuit, signals, sigInfo,
                   closeProbes>>

\* one cycle of _connect_within_timeout, lines 402-410
ConnectStep ==
    /\ lpc = "connect"
    /\ \E d \in 0..MaxProbeDelay :
        LET k == Answer(port)
            t == tnow + d
            truth == IF ownState = "dead" THEN "dead" ELSE "alive"
        IN  /\ nProbes' = nProbes + 1
            /\ port' = PortAfterProbe(port, k, TRUE)
            /\ IF Available(k, TRUE)
               THEN /\ lpc' = "prefs"
                    /\ obs' = Obs(TRUE, t, "unchecked")
                    /\ tnow' = t
                    /\ lexc' = lexc
               ELSE IF ConnectTimedOut(t, startupTimeout)
               THEN /\ lpc' = "failed"
                    /\ lexc' = "BtcApiException"
                    /\ obs' = Obs(FALSE, t, "unchecked")
                    /\ tnow' = t
               ELSE IF ~StillAlive
               THEN /\ lpc' = "failed"
                    /\ lexc' = "BtcApiException"
                    /\ obs' = Obs(FALSE, t, truth)
                    /\ tnow' = t
               ELSE /\ lpc' = "connect"
                    /\ lexc' = lexc
                    /\ obs' = Obs(FALSE, t, truth)
                    /\ tnow' = t + WAIT_INTERVAL
    /\ UNCHANGED <<notLife, recVars, lifeInputs, foreign, ep_process, actively_started,
                   definitively_closed, ownPort, ownState, closeStart, forceQuit,
                   signals, sigInfo, closeProbes>>

\* __init__, line 139: _apply_preferences(version) sends the PUT requests
\* of the configured preferences (the configuration has some) and catches
\* their failures
ApplyPreferences ==
    /\ lpc = "prefs"
    /\ prefsSent = "pending"
    /\ prefsSent' = "sent"
    /\ UNCHANGED <<notLife, lifeInputs, foreign, lpc, port, ep_process, actively_started,
                   definitively_closed, ownPort, ownState, tnow, closeStart, obs,
                   nProbes, forceQuit, signals, sigInfo, closeProbes, lexc, versionSet>>

\* __init__, line 140: self.version = version; the constructor returns
RecordVersion ==
    /\ lpc = "prefs"
    /\ prefsSent # "pending"
    /\ versionSet' = TRUE
    /\ lpc' = "connected"
    /\ UNCHANGED <<notLife, lifeInputs, foreign, port, ep_process, actively_started,
                   definitively_closed, ownPort, ownState, tnow, closeStart, obs,
                   nProbes, forceQuit, signals, sigInfo, closeProbes, lexc, prefsSent>>

\* close_application, lines 149-152 and 163: the force-quit request raises
\* when nothing answers; without a launched process the method returns at once
CloseForceQuit ==
    /\ lpc = "connected"
    /\ forceQuit' = TRUE
    /\ IF Answer(port) = "none"
       THEN /\ lpc' = "close_raised"
            /\ lexc' = "BtcApiException"
            /\ UNCHANGED closeStart
       ELSE /\ closeStart' = tnow
            /\ lpc' = IF ep_process THEN "closewait" ELSE "closed"
            /\ lexc' = lexc
    /\ UNCHANGED <<notLife, recVars, lifeInputs, foreign, port, ep_process, actively_started,
                   definitively_closed, ownPort, ownState, tnow, obs, nProbes,
                   signals, sigInfo, closeProbes>>

\* one cycle of the loop of close_application, lines 153-162
CloseWaitStep ==
    /\ lpc = "closewait"
    /\ LET k == Answer(port)
           elapsed == tnow - closeStart
       IN  IF Available(k, FALSE)
           THEN /\ closeProbes' = IF signals = 0
                                   THEN <<closeProbes[1] + 1, closeProbes[2]>>
                                   ELSE closeProbes
                /\ IF GraceOver(elapsed)
                   THEN /\ signals' = IF signals < MaxSignals THEN signals + 1 ELSE signals
                        /\ sigInfo' = IF signals = 0
                                      THEN [at |-> elapsed, ok |-> closeProbes[1] + 1,
                                            failed |-> closeProbes[2]]
                                      ELSE sigInfo
                        /\ tnow' = tnow
                   ELSE /\ tnow' = tnow + WAIT_INTERVAL
                        /\ UNCHANGED <<signals, sigInfo>>
                /\ UNCHANGED <<lpc, definitively_closed>>
           ELSE /\ closeProbes' = <<closeProbes[1], closeProbes[2] + 1>>
                /\ definitively_closed' = TRUE
                /\ lpc' = "closed"
                /\ UNCHANGED <<tnow, signals, sigInfo>>
    /\ UNCHANGED <<notLife, recVars, lifeInputs, foreign, port, ep_process, actively_started,
                   ownPort, ownState, closeStart, obs, nProbes, forceQuit, lexc>>

envUnchanged == <<lifeInputs, lpc, port, ep_process, actively_started,
                  definitively_closed, ownPort, tnow, closeStart, obs, nProbes,
                  forceQuit, signals, sigInfo, closeProbes, lexc>>

\* the launched engine starts to serve; it cannot bind a port in use
EngineServes ==
    /\ ownState = "starting"
    /\ ~(ownPort \in DOMAIN foreign /\ foreign[ownPort] # "none")
    /\ ownState' = "serving"
    /\ UNCHANGED <<notLife, recVars, envUnchanged, foreign>>

\* after the force-quit request the launched engine stops to serve before
\* its process exits
EngineStopsServing ==
    /\ ownState = "serving"
    /\ forceQuit
    /\ ownState' = "deaf"
    /\ UNCHANGED <<notLife, recVars, envUnchanged, foreign>>

\* the launched process exits: a crash, the force-quit or the signal
EngineExits ==
    /\ ownState \in {"starting", "serving", "deaf"}
    /\ ownState' = "dead"
    /\ UNCHANGED <<notLife, recVars, envUnchanged, foreign>>

\* an engine that ran before the session obeys the force-quit request
ForeignQuits ==
    /\ forceQuit
    /\ port \in DOMAIN foreign
    /\ foreign[port] # "none"
    /\ foreign' = [foreign EXCEPT ![port] = "none"]
    /\ UNCHANGED <<notLife, recVars, envUnchanged, ownState>>

NextLife ==
    \/ SearchPort
    \/ FirstProbe
    \/ Launch
    \/ ConnectStep
    \/ ApplyPreferences
    \/ RecordVersion
    \/ CloseForceQuit
    \/ CloseWaitStep
    \/ EngineServes
    \/ EngineStopsServing
    \/ EngineExits
    \/ ForeignQuits

-----------------------------------------------------------------------------
(* _apply_preferences *)

\* the keys config['preferences'] may hold: two plain ones and the ones with
\* a special handling
PrefKeys == {"P1", "P2", "GENERAL_MATLAB_CUSTOM_VERSION", "GENERAL_MATLAB_VERSION",
             "GENERAL_COMPILER_SETTING", "GENERAL_DATE_FORMAT_PATTERN",
             "GENERAL_TIME_FORMAT_PATTERN"}

\* the keys of a dict, in insertion order: no key twice
KeyLists ==
    {q \in UNION {[1..n -> PrefKeys] : n \in 0..MaxPrefKeys} :
        \A i, j \in DOMAIN q : i # j => q[i] # q[j]}

\* { 'preferenceName' : n, 'preferenceValue' : v }; "cfg" is the value
\* config['preferences'][n]
Pref(n, v) == [preferenceName |-> n, preferenceValue |-> v]

\* one PUT on 'preferences': who sent it, its body and whether it came back
\* without raising
Put(k, body, ok) == [kind |-> k, body |-> body, ok |-> ok]

\* the body of the PUT of set_compiler: the configured value on Windows,
\* 'GCC (64bit)' elsewhere
CompilerBody(sys, v) ==
    <<Pref("GENERAL_COMPILER_SETTING", IF sys = "Windows" THEN v ELSE "GCC (64bit)")>>

\* a loop body without the branch of the compiler
Appended_CompilerToo(key) ==
    IF key = "GENERAL_MATLAB_CUSTOM_VERSION"
    THEN <<Pref("GENERAL_MATLAB_VERSION", "CUSTOM"), Pref(key, "cfg")>>
    ELSE <<Pref(key, "cfg")>>

\* what the loop body appends to `preferences` for one key
Appended(key) ==
    IF key = "GENERAL_MATLAB_CUSTOM_VERSION"
    THEN <<Pref("GENERAL_MATLAB_VERSION", "CUSTOM"), Pref(key, "cfg")>>
    ELSE IF key = "GENERAL_COMPILER_SETTING"
    THEN <<>>
    ELSE <<Pref(key, "cfg")>>

\* line 553: pref_key == 'GENERAL_DATE_FORMAT_PATTERN' or pref_key ==
\* 'GENERAL_TIME_FORMAT_PATTERN' and version >= '24.3p0'
IsDateTimeKey(key, v) ==
    \/ key = "GENERAL_DATE_FORMAT_PATTERN"
    \/ (key = "GENERAL_TIME_FORMAT_PATTERN" /\ ~StrLess(v, V24_3p0))

\* version >= '24.3p0' and not user_defined_datetime_format: the two default
\* patterns are appended
DefaultDateTime(v, userDefined) ==
    IF ~StrLess(v, V24_3p0) /\ ~userDefined
    THEN <<Pref("GENERAL_DATE_FORMAT_PATTERN", "YYYY-MM-dd"),
           Pref("GENERAL_TIME_FORMAT_PATTERN", "HH:mm:ss")>>
    ELSE <<>>

\* the single PUTs are sent whatever the batch PUT did
RetryIndividually_Always(ok) == TRUE

\* except (Exception): the single PUTs are sent when the batch PUT raised
RetryIndividually(ok) == ~ok

InitPrefs ==
    /\ hasPrefs \in BOOLEAN
    /\ keys \in KeyLists
    /\ ~hasPrefs => keys = <<>>
    /\ kidx = 1
    /\ preferences = <<>>
    /\ user_defined_datetime_format = FALSE
    /\ puts = <<>>
    /\ apc = "start"
    /\ pidx = 1
    /\ successfully_applied = 0
    /\ failedReports = 0
    /\ aexc = "none"

\* lines 530-533
PrefsBegin ==
    /\ apc = "start"
    /\ apc' = IF hasPrefs THEN "keys" ELSE "done"
    /\ UNCHANGED <<notPrefs, hasPrefs, keys, kidx, preferences,
                   user_defined_datetime_format, puts, pidx,
                   successfully_applied, failedReports, aexc>>

\* lines 534-557, one key: set_compiler sends its own PUT and passes over a
\* failure of it
BuildKey ==
    /\ apc = "keys"
    /\ kidx <= Len(keys)
    /\ kidx' = kidx + 1
    /\ preferences' = preferences \o Appended(keys[kidx])
    /\ user_defined_datetime_format' =
            (user_defined_datetime_format \/ IsDateTimeKey(keys[kidx], version))
    /\ IF keys[kidx] = "GENERAL_COMPILER_SETTING"
       THEN \E ok \in BOOLEAN :
                puts' = Append(puts, Put("compiler", CompilerBody(platformSys, "cfg"), ok))
       ELSE UNCHANGED puts
    /\ UNCHANGED <<notPrefs, hasPrefs, keys, apc, pidx,
                   successfully_applied, failedReports, aexc>>

\* lines 560-570: the default patterns, then self.put('preferences', preferences)
BatchPut ==
    /\ apc = "keys"
    /\ kidx > Len(keys)
    /\ LET full == preferences \o DefaultDateTime(version, user_defined_datetime_format)
       IN  /\ preferences' = full
           /\ \E ok \in BOOLEAN :
                /\ puts' = Append(puts, Put("batch", full, ok))
                /\ apc' = IF RetryIndividually(ok) THEN "single" ELSE "done"
    /\ pidx' = 1
    /\ successfully_applied' = 0
    /\ UNCHANGED <<notPrefs, hasPrefs, keys, kidx,
                   user_defined_datetime_format, failedReports, aexc>>

\* lines 571-577, one preference: self.put('preferences', [pref])
SinglePut ==
    /\ apc = "single"
    /\ pidx <= Len(preferences)
    /\ pidx' = pidx + 1
    /\ \E ok \in BOOLEAN :
        /\ puts' = Append(puts, Put("single", <<preferences[pidx]>>, ok))
        /\ successfully_applied' = IF ok THEN successfully_applied + 1
                                   ELSE successfully_applied
        /\ failedReports' = IF ok THEN failedReports ELSE failedReports + 1
    /\ UNCHANGED <<notPrefs, hasPrefs, keys, kidx, preferences,
                   user_defined_datetime_format, apc, aexc>>

\* line 578: "Successfully applied {successfully_applied} out of ..."
PrefsReport ==
    /\ apc = "single"
    /\ pidx > Len(preferences)
    /\ apc' = "done"
    /\ UNCHANGED <<notPrefs, hasPrefs, keys, kidx, preferences,
                   user_defined_datetime_format, puts, pidx,
                   successfully_applied, failedReports, aexc>>

NextPrefs ==
    \/ PrefsBegin
    \/ BuildKey
    \/ BatchPut
    \/ SinglePut
    \/ PrefsReport

-----------------------------------------------------------------------------
(* Profile-load paths: urllib.parse.quote / unquote and the two translators *)

\* the characters a project path is made of: g / % 2 0 & ?
PathChars == {103, 47, 37, 50, 48, 38, 63}

Paths == UNION {[1..n -> PathChars] : n \in 0..MaxPathLen}

\* 'profiles/', 'openprofile', 'openprofile?', 'openprofile?path=', 'path'
S_profiles == <<112, 114, 111, 102, 105, 108, 101, 115, 47>>
S_openprofile == <<111, 112, 101, 110, 112, 114, 111, 102, 105, 108, 101>>
S_openprofileQ == <<111, 112, 101, 110, 112, 114, 111, 102, 105, 108, 101, 63>>
S_openprofilePath == <<111, 112, 101, 110, 112, 114, 111, 102, 105, 108, 101, 63, 112, 97, 116, 104, 61>>
S_path == <<112, 97, 116, 104>>

\* str.startswith
StartsWith(s, pre) == Len(s) >= Len(pre) /\ SubSeq(s, 1, Len(pre)) = pre

\* str.find of one character: the 0-based index of its first occurrence, or -1
FindCh(s, c) ==
    IF \E i \in 1..Len(s) : s[i] = c
    THEN (CHOOSE i \in 1..Len(s) : s[i] = c /\ \A j \in 1..(i - 1) : s[j] # c) - 1
    ELSE -1

\* str.split on one character
RECURSIVE Split(_, _)
Split(s, c) ==
    LET i == FindCh(s, c) IN
    IF i = -1 THEN <<s>>
    ELSE <<SubSeq(s, 1, i)>> \o Split(SubSeq(s, i + 2, Len(s)), c)

\* c.join(parts)
RECURSIVE Join(_, _)
Join(parts, c) ==
    IF parts = <<>> THEN <<>>
    ELSE IF Len(parts) = 1 THEN parts[1]
    ELSE parts[1] \o <<c>> \o Join(Tail(parts), c)

IsHex(c) == c \in 48..57 \/ c \in 65..70 \/ c \in 97..102

HexVal(c) == IF c <= 57 THEN c - 48 ELSE IF c <= 70 THEN c - 55 ELSE c - 87

\* the upper-case hexadecimal digit of n
HexDigit(n) == IF n < 10 THEN 48 + n ELSE 55 + n

\* the characters quote(..., safe="") keeps: letters, digits and _ . - ~
Unreserved(c) ==
    c \in 65..90 \/ c \in 97..122 \/ c \in 48..57 \/ c \in {95, 46, 45, 126}

\* urllib.parse.quote(s, safe=""), for ASCII text
RECURSIVE Quote(_)
Quote(s) ==
    IF s = <<>> THEN <<>>
    ELSE (IF Unreserved(Head(s)) THEN <<Head(s)>>
          ELSE <<37, HexDigit(Head(s) \div 16), HexDigit(Head(s) % 16)>>)
         \o Quote(Tail(s))

\* urllib.parse.unquote(s): every %XX with two hexadecimal digits becomes the
\* character of that code, any other % stays
RECURSIVE Unquote(_)
Unquote(s) ==
    IF s = <<>> THEN <<>>
    ELSE IF s[1] = 37 /\ Len(s) >= 3 /\ IsHex(s[2]) /\ IsHex(s[3])
    THEN <<16 * HexVal(s[2]) + HexVal(s[3])>> \o Unquote(SubSeq(s, 4, Len(s)))
    ELSE <<s[1]>> \o Unquote(Tail(s))

Failed(x) == [exc |-> x, url |-> <<>>]
Translated(u) == [exc |-> "none", url |-> u]

\* the file is looked for on a remote host only
MustExist_RemoteOnly(path, exists, local) == path # <<>> /\ ~exists /\ ~local

\* path and not os.path.isfile(path) and self._is_localhost(): exit(1)
MustExist(path, exists, local) == path # <<>> /\ ~exists /\ local

\* _get_profilesurl_pre253
ProfilesUrlPre253(u, convert, exists, local) ==
    LET iq == FindCh(u, 63)
        raw == IF iq > 0 THEN SubSeq(u, 10, iq) ELSE SubSeq(u, 10, Len(u))
        suffix == IF iq > 0 THEN SubSeq(u, iq + 1, Len(u)) ELSE <<>>
        path == Unquote(raw)
    IN  IF MustExist(path, exists, local) THEN Failed("SystemExit")
        ELSE IF convert THEN Translated(S_openprofilePath \o Quote(path))
        ELSE Translated(S_profiles \o Quote(path) \o suffix)

\* _get_profilesurl_post253
ProfilesUrlPost253(u, exists, local) ==
    LET iq == FindCh(u, 63)
        qs == IF iq > 0 THEN SubSeq(u, iq + 2, Len(u)) ELSE <<>>
        pairs == Split(qs, 38)
        kv(i) == Split(pairs[i], 61)
        \* where the first loop ends: at the first pair that does not unpack
        \* into key and value, or whose key is 'path'
        stops == {i \in 1..Len(pairs) : Len(kv(i)) # 2 \/ kv(i)[1] = S_path}
        at == CHOOSE i \in stops : \A j \in stops : i <= j
        path == Unquote(kv(at)[2])
        rebuilt == [i \in 1..Len(pairs) |->
                        IF kv(i)[1] = S_path THEN S_path \o <<61>> \o Quote(path)
                        ELSE pairs[i]]
    IN  IF qs = <<>> THEN Failed("Exception")
        ELSE IF stops = {} THEN Failed("UnboundLocalError")
        ELSE IF Len(kv(at)) # 2 THEN Failed("ValueError")
        ELSE IF MustExist(path, exists, local) THEN Failed("SystemExit")
        ELSE IF Quote(path) = <<>> THEN Translated(S_openprofileQ \o qs)
        ELSE IF \E i \in 1..Len(pairs) : Len(kv(i)) # 2 THEN Failed("ValueError")
        ELSE Translated(S_openprofileQ \o Join(rebuilt, 38))

\* _is_profile_load_call
IsProfileLoadCall(u) == StartsWith(u, S_openprofile) \/ StartsWith(u, S_profiles)

\* _precheck_get, lines 622-628: which translator is applied
ProfileUrl(v, u, exists, local) ==
    IF StartsWith(u, S_openprofile) THEN ProfilesUrlPost253(u, exists, local)
    ELSE IF v # <<>> /\ ~StrLess(v, V25_3p0)
    THEN ProfilesUrlPre253(u, TRUE, exists, local)
    ELSE ProfilesUrlPre253(u, FALSE, exists, local)

\* what the caller writes for path p
Appendix(style, p, encoded) ==
    (IF style = "profiles" THEN S_profiles ELSE S_openprofilePath)
        \o (IF encoded THEN Quote(p) ELSE p)

InitProf ==
    /\ profStyle \in {"profiles", "openprofile"}
    /\ profPath \in Paths
    /\ preEncoded \in BOOLEAN
    /\ isLocal \in BOOLEAN
    /\ fileExists \in BOOLEAN
    /\ urlappendix = Appendix(profStyle, profPath, preEncoded)
    /\ ppc = "call"
    /\ url_combined = <<>>
    /\ pexc = "none"
    /\ httpSent = <<>>
    /\ watchers = 0
    /\ markerSet = FALSE

\* get_req, line 323: _precheck_get on a profile-load call
PrecheckGet ==
    /\ ppc = "call"
    /\ IsProfileLoadCall(urlappendix)
    /\ markerSet' = TRUE
    /\ LET r == ProfileUrl(version, urlappendix, fileExists, isLocal) IN
        IF r.exc # "none"
        THEN /\ pexc' = r.exc
             /\ ppc' = "done"
             /\ UNCHANGED <<url_combined, watchers>>
        ELSE /\ url_combined' = r.url
             /\ watchers' = watchers + 1
             /\ ppc' = "send"
             /\ UNCHANGED pexc
    /\ UNCHANGED <<notProf, profStyle, profPath, preEncoded, isLocal, fileExists,
                   urlappendix, httpSent>>

\* get_req, lines 324-325: requests.get(self._url(url))
SendGet ==
    /\ ppc = "send"
    /\ httpSent' = Append(httpSent, url_combined)
    /\ ppc' = "done"
    /\ UNCHANGED <<notProf, profStyle, profPath, preEncoded, isLocal, fileExists,
                   urlappendix, url_combined, pexc, watchers, markerSet>>

NextProf ==
    \/ PrecheckGet
    \/ SendGet

-----------------------------------------------------------------------------
(* The ports of a launch on Windows (SpecMl): __init__ up to the command   *)
(* line of _start_app_windows, with the port numbers themselves.           *)

\* the `port` arguments tried: the default and the ports around the two
\* places where 29300 + (port % 100) meets the port
CtorPorts ==
    {DEFAULT_PORT}
        \cup ((ML_BASE - ML_MOD - PortSpread)..(ML_BASE - ML_MOD + PortSpread))
        \cup ((ML_BASE - PortSpread)..(ML_BASE + PortSpread))

\* is_port_in_use(p, host)
RunBusy(p) == p >= ctorPort /\ p < ctorPort + busyRun

\* _find_next_port(p, host), every probe answering
RECURSIVE FindOpen(_)
FindOpen(p) == IF RunBusy(p) THEN FindOpen(NextPortNo(p)) ELSE p

\* lines 776-778: ml_port = 29300 + (port % 100); if ml_port == port:
\* ml_port -= 100.  p is the parameter `port` of __init__, not the port of
\* the session
MlPort(p) ==
    IF ML_BASE + (p % ML_MOD) = p
    THEN ML_BASE + (p % ML_MOD) - ML_MOD
    ELSE ML_BASE + (p % ML_MOD)

InitMl ==
    /\ ctorPort \in CtorPorts
    /\ busyRun \in 0..MaxBusyRun
    /\ mlForce \in BOOLEAN
    /\ mlAnswer \in {"none", "same", "other"}
    /\ sessPort = ctorPort
    /\ ml_port = 0
    /\ restArg = 0
    /\ apiArg = 0
    /\ mpc = "search"

\* __init__, lines 98-100
MlSearch ==
    /\ mpc = "search"
    /\ sessPort' = IF mlForce THEN FindOpen(sessPort) ELSE sessPort
    /\ mpc' = "probe"
    /\ UNCHANGED <<notMl, ctorPort, busyRun, mlForce, mlAnswer, ml_port, restArg, apiArg>>

\* __init__, line 126: the first health probe; an engine of another version
\* moves the session to the next port (lines 446-452)
MlFirstProbe ==
    /\ mpc = "probe"
    /\ sessPort' = IF mlAnswer = "other" THEN NextPortNo(sessPort) ELSE sessPort
    /\ mpc' = IF mlAnswer = "same" THEN "attached" ELSE "launch"
    /\ UNCHANGED <<notMl, ctorPort, busyRun, mlForce, mlAnswer, ml_port, restArg, apiArg>>

\* _start_app_windows(version, install_location, port, ...), lines 776-806
MlLaunch ==
    /\ mpc = "launch"
    /\ ml_port' = MlPort(ctorPort)
    /\ apiArg' = MlPort(ctorPort)
    /\ restArg' = sessPort
    /\ mpc' = "launched"
    /\ UNCHANGED <<notMl, ctorPort, busyRun, mlForce, mlAnswer, sessPort>>

NextMl ==
    \/ MlSearch
    \/ MlFirstProbe
    \/ MlLaunch

-----------------------------------------------------------------------------
(* get_messages (SpecMsgs).  The date of a message is the day and month    *)
(* part of a text of DATE_FORMAT_MESSAGES ('%d-%b-...'): two digits, '-',  *)
(* the abbreviated month name; year and time are the same in all of them.  *)

D_01_Feb == <<48, 49, 45, 70, 101, 98>>
D_02_Feb == <<48, 50, 45, 70, 101, 98>>
D_02_Jan == <<48, 50, 45, 74, 97, 110>>
\* '01_Feb': not a date of the format
D_bad == <<48, 49, 95, 70, 101, 98>>

DateTexts == {D_01_Feb, D_02_Feb, D_02_Jan, D_bad}

\* a message object; text stands for its severity, message and hint
Message(d, t) == [date |-> d, text |-> t]

\* the lists the engine may send: message i of the list has text i
MessageLists ==
    UNION {{[i \in 1..n |-> Message(ds[i], i)] : ds \in [1..n -> DateTexts]}
            : n \in 0..MaxMsgs}

Unparsed == 0 - 1

IsDigit(c) == c >= 48 /\ c <= 57

\* %b
MonthNo(s) ==
    IF s = <<74, 97, 110>> THEN 1 ELSE IF s = <<70, 101, 98>> THEN 2 ELSE 0

\* datetime.strptime(s, DATE_FORMAT_MESSAGES) as a number that orders the
\* dates, or Unparsed for ValueError
ParseDate(s) ==
    IF /\ Len(s) = 6
       /\ IsDigit(s[1]) /\ IsDigit(s[2]) /\ s[3] = 45
       /\ MonthNo(SubSeq(s, 4, 6)) # 0
       /\ (s[1] - 48) * 10 + (s[2] - 48) \in 1..31
    THEN MonthNo(SubSeq(s, 4, 6)) * 100 + (s[1] - 48) * 10 + (s[2] - 48)
    ELSE Unparsed

\* every key is the raw text
KeyLess_Raw(mode, a, b) == StrLess(a.date, b.date)

\* key(a) < key(b) for the key function of the sort: the parsed date (line
\* 308) or the raw text (line 310)
KeyLess(mode, a, b) ==
    IF mode = "parsed"
    THEN ParseDate(a.date) < ParseDate(b.date)
    ELSE StrLess(a.date, b.date)

\* list.sort is stable: m goes behind the elements that are not greater
RECURSIVE Insert(_, _, _)
Insert(mode, q, m) ==
    IF q = <<>> THEN <<m>>
    ELSE IF KeyLess(mode, m, q[1]) THEN <<m>> \o q
    ELSE <<q[1]>> \o Insert(mode, Tail(q), m)

RECURSIVE ListSort(_, _)
ListSort(mode, q) ==
    IF q = <<>> THEN <<>>
    ELSE Insert(mode, ListSort(mode, SubSeq(q, 1, Len(q) - 1)), q[Len(q)])

\* the key function of line 308 raises for no message; list.sort computes
\* all keys before it moves anything, so a list with an unparsable date is
\* still in its old order when the except clause sorts it
AllParse(q) == \A i \in DOMAIN q : ParseDate(q[i].date) # Unparsed

InitMsgs ==
    /\ hasMarker \in BOOLEAN
    /\ engineMsgs \in MessageLists
    /\ msgFetch \in {"list", "str", "raises"}
    /\ messages = <<>>
    /\ gpc = "fetch"
    /\ msgResult = <<>>

\* lines 298-306
FetchMessages ==
    /\ gpc = "fetch"
    /\ IF hasMarker /\ msgFetch = "list"
       THEN /\ messages' = engineMsgs
            /\ gpc' = "sort"
            /\ UNCHANGED msgResult
       ELSE /\ messages' = <<>>
            /\ gpc' = "done"
            /\ msgResult' = <<>>
    /\ UNCHANGED <<notMsgs, hasMarker, engineMsgs, msgFetch>>

\* lines 307-313
SortMessages ==
    /\ gpc = "sort"
    /\ messages' = IF AllParse(messages) THEN ListSort("parsed", messages)
                   ELSE ListSort("raw", messages)
    /\ msgResult' = messages'
    /\ gpc' = "done"
    /\ UNCHANGED <<notMsgs, hasMarker, engineMsgs, msgFetch>>

NextMsgs ==
    \/ FetchMessages
    \/ SortMessages

-----------------------------------------------------------------------------
(* get_errors_from_log (SpecLog).  A text is a sequence of lines and a     *)
(* line a sequence of pieces; the piece of a line of the file is the       *)
(* number of that line, tagged with what the code asks about it.           *)

\* a line that starts with a timestamp: its time, whether 'ERROR' is in
\* line.upper() and whether one of EXCLUDED_LOG_MESSAGES is in it
StampLine(t, err, excl) == [stamp |-> TRUE, t |-> t, error |-> err, excluded |-> excl,
                            kind |-> "stamp"]

\* another line: "plain" text, "at" a stack frame ('   at com...'), "empty"
OtherLine(k) == [stamp |-> FALSE, t |-> 0, error |-> FALSE, excluded |-> FALSE,
                 kind |-> k]

LogLines ==
    {StampLine(t, e, x) : t \in 1..MaxLogTime, e \in BOOLEAN, x \in BOOLEAN}
        \cup {OtherLine(k) : k \in {"plain", "at", "empty"}}

LogFiles == UNION {[1..n -> LogLines] : n \in 0..MaxLogLines}

\* a piece of text: line i of the file, of kind k
Piece(i, k) == [line |-> i, kind |-> k]

\* line i as it is read, without its line end
Raw(i) == IF logFile[i].kind = "empty" THEN <<>> ELSE <<Piece(i, logFile[i].kind)>>

\* a line stamped with the start time counts as recent
IsRecent_OrEqual(t) == logStart = 0 \/ t >= logStart

\* not start_time or timestamp > datetime.fromtimestamp(start_time)
IsRecent(t) == logStart = 0 \/ t > logStart

\* is_error and is_recent and is_not_excluded
Relevant(l) == l.error /\ IsRecent(l.t) /\ ~l.excluded

\* current_entry += line.strip(): the text goes to the end of the last line
\* of the entry; the entry's first line ended with the line end of the
\* timestamp line, so the first continuation starts the second line
AppendStripped(entry, txt, first) ==
    IF first THEN Append(entry, txt)
    ELSE [entry EXCEPT ![Len(entry)] = @ \o txt]

\* lines 879-883: the lines of an entry that are not empty and do not start
\* with 'at '
CleanEntry(entry) ==
    SelectSeq(entry, LAMBDA ln : ln # <<>> /\ ln[1].kind # "at")

RECURSIVE CleanAll(_)
CleanAll(es) ==
    IF es = <<>> THEN <<>> ELSE <<CleanEntry(es[1])>> \o CleanAll(Tail(es))

InitLog ==
    /\ logFile \in LogFiles
    /\ logStart \in 0..MaxLogTime
    /\ lidx = 1
    /\ current_entry = <<>>
    /\ log_entries = <<>>
    /\ cleaned_log_entries = <<>>
    /\ lgpc = "lines"

\* lines 857-872: one line of the file
LogLine ==
    /\ lgpc = "lines"
    /\ lidx <= Len(logFile)
    /\ lidx' = lidx + 1
    /\ LET l == logFile[lidx] IN
        IF l.stamp
        THEN /\ log_entries' = IF current_entry # <<>>
                               THEN Append(log_entries, current_entry[1])
                               ELSE log_entries
             /\ current_entry' = IF Relevant(l) THEN <<<<Raw(lidx)>>>> ELSE <<>>
        ELSE /\ current_entry' =
                    IF current_entry # <<>>
                    THEN <<AppendStripped(current_entry[1], Raw(lidx),
                                          Len(current_entry[1]) = 1)>>
                    ELSE current_entry
             /\ UNCHANGED log_entries
    /\ UNCHANGED <<notLog, logFile, logStart, cleaned_log_entries, lgpc>>

\* lines 874-884: the last entry, the cleaning, the return
LogEnd ==
    /\ lgpc = "lines"
    /\ lidx > Len(logFile)
    /\ log_entries' = IF current_entry # <<>>
                      THEN Append(log_entries, current_entry[1])
                      ELSE log_entries
    /\ cleaned_log_entries' = CleanAll(log_entries')
    /\ lgpc' = "done"
    /\ UNCHANGED <<notLog, logFile, logStart, lidx, current_entry>>

NextLog ==
    \/ LogLine
    \/ LogEnd

-----------------------------------------------------------------------------
(* The watcher of the profile migration (SpecWatch): the caller thread     *)
(* issues GET requests one after the other, each profile load starts a     *)
(* _watch_profile_migration thread, and the threads share the module       *)
(* global the_watch_has_ended.  The platform is Windows (elsewhere the     *)
(* thread does nothing).                                                   *)

Watchers == 1..MaxLoads

\* the urlappendix of a request: a profile load in one of its two forms, or
\* a request that is no profile request
Forms == {"profiles", "openprofile", "other"}

\* the first characters of such a urlappendix
FormText(f) ==
    IF f = "profiles" THEN S_profiles
    ELSE IF f = "openprofile" THEN S_openprofilePath
    ELSE <<115, 99, 111, 112, 101, 115>>

\* urlappendix[:8] == 'profiles'
EndsTheWatch(u) == SubSeq(u, 1, Min(8, Len(u))) = SubSeq(S_profiles, 1, 8)

Running(w) == wpc[w] \in {"start", "sleep"}

InitWatch ==
    /\ helperActive \in BOOLEAN
    /\ the_watch_has_ended = "unset"
    /\ wpc = [w \in Watchers |-> "none"]
    /\ wsignalled = [w \in Watchers |-> FALSE]
    /\ wmissed = [w \in Watchers |-> FALSE]
    /\ wafter = [w \in Watchers |-> FALSE]
    /\ cpc = "idle"
    /\ curForm = "other"
    /\ nLoads = 0
    /\ nReqs = 0

\* get_req, line 323: _precheck_get starts a watcher thread for a profile
\* load (lines 616, 630)
CallerPrecheck ==
    /\ cpc = "idle"
    /\ nReqs < MaxWatchReqs
    /\ \E f \in Forms :
        /\ curForm' = f
        /\ IF IsProfileLoadCall(FormText(f))
           THEN /\ nLoads < MaxLoads
                /\ nLoads' = nLoads + 1
                /\ wpc' = [wpc EXCEPT ![nLoads + 1] = "start"]
           ELSE UNCHANGED <<nLoads, wpc>>
    /\ cpc' = "request"
    /\ UNCHANGED <<notWatch, the_watch_has_ended, helperActive, wsignalled, wmissed,
                   wafter, nReqs>>

\* get_req, lines 324-329: requests.get comes back or raises, and the
\* finally clause calls _the_watch_has_ended(urlappendix) (lines 925-930)
CallerFinally ==
    /\ cpc = "request"
    /\ cpc' = "idle"
    /\ nReqs' = nReqs + 1
    /\ IF EndsTheWatch(FormText(curForm))
       THEN /\ the_watch_has_ended' = "True"
            /\ wsignalled' = [w \in Watchers |-> wsignalled[w] \/ Running(w)]
       ELSE UNCHANGED <<the_watch_has_ended, wsignalled>>
    /\ wafter' = [w \in Watchers |->
                    wafter[w] \/ (Running(w) /\ ~IsProfileLoadCall(FormText(curForm)))]
    /\ UNCHANGED <<notWatch, helperActive, wpc, wmissed, curForm, nLoads>>

\* _watch_profile_migration, lines 905-906
WatcherBegin(w) ==
    /\ wpc[w] = "start"
    /\ the_watch_has_ended' = "False"
    /\ wpc' = [wpc EXCEPT ![w] = "sleep"]
    /\ UNCHANGED <<notWatch, helperActive, wsignalled, wmissed, wafter, cpc, curForm,
                   nLoads, nReqs>>

\* lines 909-919, one cycle: the sleep is over, the flag is read, then the
\* processes are looked up
WatcherCycle(w) ==
    /\ wpc[w] = "sleep"
    /\ IF the_watch_has_ended = "True" \/ ~helperActive
       THEN /\ wpc' = [wpc EXCEPT ![w] = "finally"]
            /\ UNCHANGED wmissed
       ELSE /\ wmissed' = [wmissed EXCEPT ![w] = wsignalled[w]]
            /\ UNCHANGED wpc
    /\ UNCHANGED <<notWatch, the_watch_has_ended, helperActive, wsignalled, wafter, cpc,
                   curForm, nLoads, nReqs>>

\* lines 922-923
WatcherEnd(w) ==
    /\ wpc[w] = "finally"
    /\ the_watch_has_ended' = "True"
    /\ wpc' = [wpc EXCEPT ![w] = "done"]
    /\ UNCHANGED <<notWatch, helperActive, wsignalled, wmissed, wafter, cpc, curForm,
                   nLoads, nReqs>>

\* the engine starts or ends its migration helper
HelperChanges ==
    /\ helperActive' = ~helperActive
    /\ UNCHANGED <<notWatch, the_watch_has_ended, wpc, wsignalled, wmissed, wafter, cpc,
                   curForm, nLoads, nReqs>>

NextWatch ==
    \/ CallerPrecheck
    \/ CallerFinally
    \/ \E w \in Watchers : WatcherBegin(w)
    \/ \E w \in Watchers : WatcherCycle(w)
    \/ \E w \in Watchers : WatcherEnd(w)
    \/ HelperChanges

(* The message marker and the prechecks of a request (SpecMark).  The      *)
(* clock counts ticks, TicksPerSec of them in a second; time.time() is     *)
(* clock / TicksPerSec, and a date of the engine is in milliseconds.       *)

\* "h:1", 'ep/', '/ep/', '/ep/ep/'
S_hostPort == <<104, 58, 49>>
S_ep == <<101, 112, 47>>
S_epRoot == <<47, 101, 112, 47>>
S_epep == <<47, 101, 112, 47, 101, 112, 47>>

\* what a caller may put before the resource: nothing, '/' or 'ep/'
Prefixes == {<<>>, <<47>>, S_ep}

\* 'profiles/g', 'openprofile?path=g', 'scopes'
Resources == {FormText(f) \o (IF f = "other" THEN <<>> ELSE <<103>>) : f \in Forms}

\* str.lstrip('/')
RECURSIVE LStrip(_)
LStrip(s) == IF s # <<>> /\ s[1] = 47 THEN LStrip(Tail(s)) ELSE s

\* str.replace(a, b): the occurrences of a from left to right
RECURSIVE Replace(_, _, _)
Replace(s, a, b) ==
    IF Len(s) < Len(a) THEN s
    ELSE IF StartsWith(s, a) THEN b \o Replace(SubSeq(s, Len(a) + 1, Len(s)), a, b)
    ELSE <<s[1]>> \o Replace(Tail(s), a, b)

\* _url: f"{host}:{port}/ep/{path.lstrip('/')}".replace('/ep/ep/', '/ep/')
Url(path) == Replace(S_hostPort \o S_epRoot \o LStrip(path), S_epep, S_epRoot)

\* post_req: urlappendix.replace('\\', '/').replace(' ', '%20')
PostPath(u) == Replace(Replace(u, <<92>>, <<47>>), <<32>>, <<37, 50, 48>>)

\* _precheck_post: urlappendix[:8] == 'profiles'
IsProfilesPost(u) == SubSeq(u, 1, Min(8, Len(u))) = SubSeq(S_profiles, 1, 8)

\* the milliseconds of time.time() * 1000 at a tick of the clock
NowMs(c) == (c * MILLIS) \div TicksPerSec

\* _set_message_marker: int((time.time() + 1) * 1000)
MarkerAt(c) == ((c + MARKER_LEAD * TicksPerSec) * MILLIS) \div TicksPerSec

\* what the session does with a request: whether it resets the marker,
\* whether it checks and translates a profile path, what it raises, the URL
\* it sends to, whether it starts a watcher and whether it signals the
\* watchers (get_req and post_req with their prechecks)
Did(m, u, v, exists) ==
    IF m = "get"
    THEN IF IsProfileLoadCall(u)
         THEN LET r == ProfileUrl(v, u, exists, TRUE) IN
              [marked |-> TRUE, checked |-> TRUE, exc |-> r.exc,
               url |-> IF r.exc = "none" THEN Url(r.url) ELSE <<>>,
               watcher |-> r.exc = "none",
               signalled |-> r.exc = "none" /\ EndsTheWatch(u)]
         ELSE [marked |-> FALSE, checked |-> FALSE, exc |-> "none",
               url |-> Url(u), watcher |-> FALSE, signalled |-> EndsTheWatch(u)]
    ELSE [marked |-> IsProfilesPost(u), checked |-> FALSE, exc |-> "none",
          url |-> Url(PostPath(u)), watcher |-> FALSE, signalled |-> FALSE]

NoRequest ==
    [method |-> "none", prefix |-> <<>>, resource |-> <<>>, v |-> <<>>,
     exists |-> FALSE, did |-> Did("post", <<>>, <<>>, FALSE)]

\* the state after __init__: the marker was set at the start (line 94)
InitMark ==
    /\ clock = 0
    /\ message_marker_date = MarkerAt(0)
    /\ markedAt = 0
    /\ produced = {}
    /\ asked = -1
    /\ mreq = NoRequest

\* time passes
MarkTick ==
    /\ clock < MaxMarkTicks
    /\ clock' = clock + 1
    /\ UNCHANGED <<notMark, message_marker_date, markedAt, produced, asked, mreq>>

\* the engine produces a message, dated now
EngineMessage ==
    /\ NowMs(clock) \notin produced
    /\ produced' = produced \cup {NowMs(clock)}
    /\ UNCHANGED <<notMark, clock, message_marker_date, markedAt, asked, mreq>>

\* get_req or post_req up to the request: the precheck and the URL
MarkRequest(m, pre, res, v, exists) ==
    LET u == pre \o res
        d == Did(m, u, v, exists)
    IN  /\ mreq' = [method |-> m, prefix |-> pre, resource |-> res, v |-> v,
                    exists |-> exists, did |-> d]
        /\ IF d.marked
           THEN /\ message_marker_date' = MarkerAt(clock)
                /\ markedAt' = clock
                /\ produced' = {}
           ELSE UNCHANGED <<message_marker_date, markedAt, produced>>
        /\ UNCHANGED <<notMark, clock, asked>>

\* get_messages, lines 299-300: the marker goes into the path of the request
AskMessages ==
    /\ message_marker_date # 0
    /\ asked' = message_marker_date
    /\ UNCHANGED <<notMark, clock, message_marker_date, markedAt, produced, mreq>>

NextMark ==
    \/ MarkTick
    \/ EngineMessage
    \/ \E m \in {"get", "post"}, pre \in Prefixes, res \in Resources,
          v \in {None, V25_3p0}, exists \in BOOLEAN :
            MarkRequest(m, pre, res, v, exists)
    \/ AskMessages

(* The lock of the port registry (SpecLock): processes that call           *)
(* reservePortRegLock and clearPortRegLock of portRegistry.py on one lock  *)
(* file.  Every access to the file is a step of its own; the age of the    *)
(* file counts the sleeps of half a second since it was created.           *)

Procs == 1..NProcs

\* the age above which a lock file is removed, in sleeps
AgeLimit == SLEEPS_PER_SEC * LOCK_MAX_LIFESPAN

\* no lock file
NoFile == [exists |-> FALSE, by |-> 0, age |-> 0]

\* open(lockLocation, "x") by process p
FileOf(p) == [exists |-> TRUE, by |-> p, age |-> 0]

\* between the acquisition of the lock and the end of clearPortRegLock
Holding == {"holding", "unlink"}

\* inside reservePortRegLock
Waiting == {"test", "age", "remove", "sleep", "create"}

\* no process has called yet; the lock file of a process that ended without
\* clearPortRegLock may be there
InitLock ==
    /\ lockFile \in {NoFile, FileOf(0)}
    /\ rpc = [p \in Procs |-> "idle"]
    /\ retried = [p \in Procs |-> FALSE]
    /\ rret = [p \in Procs |-> "none"]
    /\ clearedOther = FALSE

\* a process calls reservePortRegLock()
Reserve(p) ==
    /\ rpc[p] = "idle"
    /\ rpc' = [rpc EXCEPT ![p] = "test"]
    /\ retried' = [retried EXCEPT ![p] = FALSE]
    /\ rret' = [rret EXCEPT ![p] = "none"]
    /\ UNCHANGED <<notLock, lockFile, clearedOther>>

\* line 10: while os.path.isfile(lockLocation)
TestLock(p) ==
    /\ rpc[p] = "test"
    /\ rpc' = [rpc EXCEPT ![p] = IF lockFile.exists THEN "age" ELSE "create"]
    /\ UNCHANGED <<notLock, lockFile, retried, rret, clearedOther>>

\* line 15: time.time() - os.path.getmtime(lockLocation) > LOCK_MAX_LIFESPAN;
\* getmtime raises when the file is gone, and the exception is passed over
ReadAge(p) ==
    /\ rpc[p] = "age"
    /\ rpc' = [rpc EXCEPT ![p] = IF lockFile.exists /\ lockFile.age > AgeLimit
                                  THEN "remove" ELSE "sleep"]
    /\ UNCHANGED <<notLock, lockFile, retried, rret, clearedOther>>

\* line 16: os.remove(lockLocation), of the file that is there now
ForceRemove(p) ==
    /\ rpc[p] = "remove"
    /\ lockFile' = NoFile
    /\ rpc' = [rpc EXCEPT ![p] = "sleep"]
    /\ UNCHANGED <<notLock, retried, rret, clearedOther>>

\* lines 20-27: the exclusive creation returns True from the call that made
\* it; when the file exists the function calls itself and drops the result
CreateLock(p) ==
    /\ rpc[p] = "create"
    /\ IF lockFile.exists
       THEN /\ retried' = [retried EXCEPT ![p] = TRUE]
            /\ rpc' = [rpc EXCEPT ![p] = "test"]
            /\ UNCHANGED <<lockFile, rret>>
       ELSE /\ lockFile' = FileOf(p)
            /\ rret' = [rret EXCEPT ![p] = IF retried[p] THEN "None" ELSE "True"]
            /\ rpc' = [rpc EXCEPT ![p] = "holding"]
            /\ UNCHANGED retried
    /\ UNCHANGED <<notLock, clearedOther>>

\* clearPortRegLock, line 30: if os.path.isfile(lockLocation)
ClearTest(p) ==
    /\ rpc[p] = "holding"
    /\ rpc' = [rpc EXCEPT ![p] = IF lockFile.exists THEN "unlink" ELSE "idle"]
    /\ UNCHANGED <<notLock, lockFile, retried, rret, clearedOther>>

\* clearPortRegLock, line 31: os.remove(lockLocation), of the file that is
\* there now; it raises when the file is gone
ClearRemove(p) ==
    /\ rpc[p] = "unlink"
    /\ clearedOther' = (clearedOther \/ (lockFile.exists /\ lockFile.by # p))
    /\ lockFile' = NoFile
    /\ rpc' = [rpc EXCEPT ![p] = "idle"]
    /\ UNCHANGED <<notLock, retried, rret>>

\* line 19: half a second passes; the sleeps end
LockTick ==
    /\ lockFile' = IF lockFile.exists /\ lockFile.age <= AgeLimit
                   THEN [lockFile EXCEPT !.age = @ + 1] ELSE lockFile
    /\ rpc' = [p \in Procs |-> IF rpc[p] = "sleep" THEN "test" ELSE rpc[p]]
    /\ UNCHANGED <<notLock, retried, rret, clearedOther>>

NextLock ==
    \/ \E p \in Procs : Reserve(p)
    \/ \E p \in Procs : TestLock(p)
    \/ \E p \in Procs : ReadAge(p)
    \/ \E p \in Procs : ForceRemove(p)
    \/ \E p \in Procs : CreateLock(p)
    \/ \E p \in Procs : ClearTest(p)
    \/ \E p \in Procs : ClearRemove(p)
    \/ LockTick

-----------------------------------------------------------------------------
(* The specifications *)

\* the variables of the part that is not exercised keep their initial values
ReqIdle ==
    /\ version = V25_3p0
    /\ method = "get"
    /\ argTimeout = None
    /\ InitReq

LifeIdle ==
    /\ platformSys = "Windows"
    /\ versionGiven = TRUE
    /\ launchable = TRUE
    /\ ownVer = "same"
    /\ startupTimeout = 0
    /\ force_new_port = FALSE
    /\ foreign = [p \in 0..MaxPort |-> "none"]
    /\ InitLife

PrefsIdle ==
    /\ hasPrefs = FALSE
    /\ keys = <<>>
    /\ InitPrefs

PortIdle ==
    /\ listening = {}
    /\ initial_port = PORT_MAX
    /\ errAt = 0
    /\ InitPort

ProfIdle ==
    /\ profStyle = "profiles"
    /\ profPath = <<>>
    /\ preEncoded = FALSE
    /\ isLocal = FALSE
    /\ fileExists = FALSE
    /\ InitProf

MlIdle ==
    /\ ctorPort = DEFAULT_PORT
    /\ busyRun = 0
    /\ mlForce = FALSE
    /\ mlAnswer = "none"
    /\ InitMl

MsgsIdle ==
    /\ hasMarker = TRUE
    /\ engineMsgs = <<>>
    /\ msgFetch = "list"
    /\ InitMsgs

LogIdle ==
    /\ logFile = <<>>
    /\ logStart = 0
    /\ InitLog

WatchIdle ==
    /\ helperActive = FALSE
    /\ InitWatch

MarkIdle ==
    /\ InitMark

LockIdle ==
    /\ lockFile = NoFile
    /\ InitLock

InitSpecReq ==
    /\ LifeIdle
    /\ PrefsIdle
    /\ PortIdle
    /\ ProfIdle
    /\ MlIdle
    /\ MsgsIdle
    /\ LogIdle
    /\ WatchIdle
    /\ MarkIdle
    /\ LockIdle
    /\ InitReq

InitSpecLife ==
    /\ ReqIdle
    /\ PrefsIdle
    /\ PortIdle
    /\ ProfIdle
    /\ MlIdle
    /\ MsgsIdle
    /\ LogIdle
    /\ WatchIdle
    /\ MarkIdle
    /\ LockIdle
    /\ InitLife

InitSpecPort ==
    /\ ReqIdle
    /\ LifeIdle
    /\ PrefsIdle
    /\ ProfIdle
    /\ MlIdle
    /\ MsgsIdle
    /\ LogIdle
    /\ WatchIdle
    /\ MarkIdle
    /\ LockIdle
    /\ InitPort

InitSpecMl ==
    /\ ReqIdle
    /\ LifeIdle
    /\ PrefsIdle
    /\ PortIdle
    /\ ProfIdle
    /\ MsgsIdle
    /\ LogIdle
    /\ WatchIdle
    /\ MarkIdle
    /\ LockIdle
    /\ InitMl

InitSpecMsgs ==
    /\ ReqIdle
    /\ LifeIdle
    /\ PrefsIdle
    /\ PortIdle
    /\ ProfIdle
    /\ MlIdle
    /\ LogIdle
    /\ WatchIdle
    /\ MarkIdle
    /\ LockIdle
    /\ InitMsgs

InitSpecLog ==
    /\ ReqIdle
    /\ LifeIdle
    /\ PrefsIdle
    /\ PortIdle
    /\ ProfIdle
    /\ MlIdle
    /\ MsgsIdle
    /\ WatchIdle
    /\ MarkIdle
    /\ LockIdle
    /\ InitLog

InitSpecWatch ==
    /\ ReqIdle
    /\ LifeIdle
    /\ PrefsIdle
    /\ PortIdle
    /\ ProfIdle
    /\ MlIdle
    /\ MsgsIdle
    /\ LogIdle
    /\ MarkIdle
    /\ LockIdle
    /\ InitWatch

InitSpecMark ==
    /\ ReqIdle
    /\ LifeIdle
    /\ PrefsIdle
    /\ PortIdle
    /\ ProfIdle
    /\ MlIdle
    /\ MsgsIdle
    /\ LogIdle
    /\ WatchIdle
    /\ LockIdle
    /\ InitMark

InitSpecLock ==
    /\ ReqIdle
    /\ LifeIdle
    /\ PrefsIdle
    /\ PortIdle
    /\ ProfIdle
    /\ MlIdle
    /\ MsgsIdle
    /\ LogIdle
    /\ WatchIdle
    /\ MarkIdle
    /\ InitLock

\* a profile-load GET on any version
InitSpecProf ==
    /\ method = "get"
    /\ argTimeout = None
    /\ InitReq
    /\ LifeIdle
    /\ PrefsIdle
    /\ PortIdle
    /\ MlIdle
    /\ MsgsIdle
    /\ LogIdle
    /\ WatchIdle
    /\ MarkIdle
    /\ LockIdle
    /\ InitProf

\* _apply_preferences on any platform and version
InitSpecPrefs ==
    /\ method = "get"
    /\ argTimeout = None
    /\ InitReq
    /\ versionGiven = TRUE
    /\ launchable = TRUE
    /\ ownVer = "same"
    /\ startupTimeout = 0
    /\ force_new_port = FALSE
    /\ foreign = [p \in 0..MaxPort |-> "none"]
    /\ InitLife
    /\ PortIdle
    /\ ProfIdle
    /\ MlIdle
    /\ MsgsIdle
    /\ LogIdle
    /\ WatchIdle
    /\ MarkIdle
    /\ LockIdle
    /\ InitPrefs

SpecReq == InitSpecReq /\ [][NextReq]_vars

\* the caller thread keeps running: no step of a request waits for anything
\* but the answer of the engine or the end of a sleep
SpecReqFair == SpecReq /\ WF_vars(NextReq)

SpecLife == InitSpecLife /\ [][NextLife]_vars

\* the thread that runs __init__ is scheduled: a cycle of the startup wait
\* (a probe that answers or fails, then a sleep) comes to its end
SpecLifeFair == SpecLife /\ WF_vars(ConnectStep)

\* close_application runs: a cycle of its loop (a probe, then a sleep or the
\* signal) comes to its end; and the launched process exits once the
\* force-quit request was sent or a signal was delivered
SpecCloseFair ==
    /\ SpecLife
    /\ WF_vars(CloseWaitStep)
    /\ WF_vars(EngineExits /\ (forceQuit \/ signals > 0))

SpecPrefs == InitSpecPrefs /\ [][NextPrefs]_vars

SpecPort == InitSpecPort /\ [][NextPort]_vars

SpecProf == InitSpecProf /\ [][NextProf]_vars

SpecMl == InitSpecMl /\ [][NextMl]_vars

SpecMsgs == InitSpecMsgs /\ [][NextMsgs]_vars

SpecLog == InitSpecLog /\ [][NextLog]_vars

SpecWatch == InitSpecWatch /\ [][NextWatch]_vars

SpecMark == InitSpecMark /\ [][NextMark]_vars

SpecLock == InitSpecLock /\ [][NextLock]_vars

\* every process inside reservePortRegLock keeps running and time passes;
\* a holder need not call clearPortRegLock
SpecLockFair ==
    /\ SpecLock
    /\ WF_vars(LockTick)
    /\ \A p \in Procs :
        WF_vars(TestLock(p) \/ ReadAge(p) \/ ForceRemove(p) \/ CreateLock(p))

-----------------------------------------------------------------------------
(* Properties of one request (SpecReq) *)

Last(q) == q[Len(q)]

Raised == outcome = "BtcApiException"

PostLike == {"post", "put", "patch", "delete"}

\* every progress request but the latest was answered 202
OnlyLastNon202 == \A i \in 1..(Len(polls) - 1) : polls[i].status = 202

\* the latest progress request was answered, and not with 202
Settled == polls # <<>> /\ ~Fails(Last(polls)) /\ Last(polls).status # 202

\* the progress responses so far: some 202, then one successful other status
SettledOk == polls # <<>> /\ Ok(Last(polls)) /\ Last(polls).status # 202

\* C1: a post/put/patch/delete without timeout that is answered 202 with a
\* job id polls until the first non-202 progress response and no further: no
\* progress request follows a non-202 answer, the call does not end on a 202
\* answer, and when k answers 202 are followed by a successful other answer
\* the call returns that answer after exactly k+1 progress requests.
C1_PollsUntilFirstNon202 ==
    (method \in PostLike /\ argTimeout = None /\ initResp = Resp(202, "none", TRUE))
        => /\ OnlyLastNon202
           /\ (pc = "done" /\ ~failed) => Settled
           /\ (pc = "done" /\ SettledOk)
                => (outcome = "returned" /\ retResp = Last(polls))

\* the scenario of the specification: 202, 202, then 200
C1_Witness ==
    /\ pc = "done"
    /\ method = "post"
    /\ argTimeout = None
    /\ initResp = Resp(202, "none", TRUE)
    /\ polls = <<Resp(202, "none", FALSE), Resp(202, "none", FALSE),
                 Resp(200, "none", FALSE)>>
    /\ outcome = "returned"
    /\ retResp = Resp(200, "none", FALSE)

\* C2: during the polling of one job at most one cancellation request is
\* issued, whether the cancellation request succeeds or fails.
C2_AtMostOneCancel == Len(cancels) <= 1

\* C3 as stated: once a cancellation request was issued, the call returns
\* the first non-202 progress response.
C3_ReturnsFirstNon202 ==
    (pc = "done" /\ cancels # <<>> /\ polls # <<>>
        /\ Last(polls) # TransportFail /\ Last(polls).status # 202)
        => (outcome = "returned" /\ retResp = Last(polls))

\* C3, amended: cancellation is advisory.  Once a cancellation request was
\* issued the poller still polls until the first non-202 progress response;
\* the call returns that response when it is successful and raises only when
\* a progress request failed; a cancellation request that fails raises
\* nothing to the caller and does not end the polling.
C3_CancelIsAdvisory ==
    cancels # <<>>
        => /\ OnlyLastNon202
           /\ (pc = "done" /\ ~failed) => Settled
           /\ (pc = "done" /\ SettledOk)
                => (outcome = "returned" /\ retResp = Last(polls))
           /\ Raised => failed

\* a cancellation request failed, the polling went on and the call returned
\* the settled job
C3_Witness ==
    /\ pc = "done"
    /\ cancels # <<>>
    /\ ~cancels[1].ok
    /\ Len(polls) > 2
    /\ outcome = "returned"
    /\ retResp = Last(polls)
    /\ retResp.status = 200

\* C4: a cancellation request is issued only when the caller passed a
\* timeout, the version is not below "25.3p0" and more than the timeout has
\* elapsed; on version "21.3p0" none is issued whatever the timeout, and the
\* call raises only when a request failed, never because of the timeout.
C4_CancelOnlyWhenSupported ==
    /\ \A i \in 1..Len(cancels) :
        /\ argTimeout # None
        /\ ~StrLess(version, V25_3p0)
        /\ cancels[i].at > argTimeout[1]
    /\ version = V21_3p0 => (cancels = <<>> /\ (Raised => failed))

\* on "21.3p0" a job was still pending after the timeout, and the call went
\* on to return the settled job
C4_Witness ==
    /\ version = V21_3p0
    /\ method = "post"
    /\ argTimeout = Some(0)
    /\ warned
    /\ pc = "done"
    /\ Len(polls) > 2
    /\ now - start_time > 0
    /\ outcome = "returned"

\* C5: from "25.3p0" on a timeout is honoured for each of get, post, put,
\* patch and delete: when the job is still pending at a poll of the loop made
\* after more than the timeout, a cancellation request has been issued.
C5_TimeoutHonoured ==
    (/\ ~StrLess(version, V25_3p0)
     /\ argTimeout # None
     /\ pc = "loop"
     /\ Len(polls) > 1
     /\ response.status = 202
     /\ now - start_time > argTimeout[1])
        => cancels # <<>>

-----------------------------------------------------------------------------
(* Properties of construction and close (SpecLife) *)

\* the constructor has returned
Constructed == lpc \in {"connected", "closewait", "closed", "close_raised"}

\* C6: after the launch, construction gets past the startup wait only after
\* a health probe has succeeded; a cycle of the wait that sees the probe fail
\* and either more than the timeout elapsed since the start of the session or
\* the launched process dead ends construction with BtcApiException, and
\* the session does not become Connected.
C6_ConnectedOnlyWhenHealthy ==
    /\ (actively_started /\ (lpc = "prefs" \/ Constructed)) => (obs.seen /\ obs.ok)
    /\ (obs.seen /\ ~obs.ok /\ (obs.elapsed > startupTimeout \/ obs.alive = "dead"))
            => (lpc = "failed" /\ lexc = "BtcApiException")
    /\ lpc = "failed" => ~definitively_closed /\ ~forceQuit

\* the scenario of the specification: nothing listens, the launch succeeds
\* and the third health probe of the wait succeeds
C6_Witness ==
    /\ lpc = "connected"
    /\ actively_started
    /\ \A p \in DOMAIN foreign : foreign[p] = "none"
    /\ nProbes = 3
    /\ obs.ok
    /\ obs.elapsed <= startupTimeout

\* C7: the spawned process does not outlive the session: when construction
\* has failed after the launch, and when close_application has ended, the
\* spawned process has been terminated.
C7_NoOrphanProcess ==
    (ep_process /\ lpc \in {"failed", "closed", "close_raised"})
        => ownState = "dead"

\* C8: close_application issues the force-quit request before it polls the
\* health probe; os.kill is called only after the force-quit request, only
\* on a launched process, and only once every health probe since the request
\* succeeded and more than the 10 seconds of grace have passed; a session
\* that did not launch the engine never calls os.kill.
C8_SignalOnlyAfterGrace ==
    /\ (lpc \in {"closewait", "closed", "close_raised"} \/ closeProbes # <<0, 0>>)
            => forceQuit
    /\ signals > 0
            => /\ forceQuit
               /\ ep_process
               /\ sigInfo.at > CLOSE_GRACE
               /\ sigInfo.ok > 0
               /\ sigInfo.failed = 0
    /\ ~actively_started => signals = 0

\* the engine went on serving for more than 10 seconds after the force-quit
\* request, was signalled and exited; close_application returned
C8_Witness ==
    /\ lpc = "closed"
    /\ signals > 0
    /\ ownState = "dead"
    /\ definitively_closed

\* C9: after close_application has returned, definitively_closed is true,
\* for a session that launched the engine and for one that attached to a
\* running engine.
C9_ClosedAfterClose == lpc = "closed" => definitively_closed

\* C17: with force_new_port=True the session never attaches to an engine
\* that was already running: a construction that gets past the health probe
\* has launched the engine process itself.
C17_ForcedNeverAttaches ==
    (force_new_port /\ (lpc = "prefs" \/ Constructed)) => actively_started

\* C10: every invocation of _handle_error ends by raising BtcApiException and
\* none returns normally, so a request that failed in transport or with a
\* non-benign status never returns a response: the call whose request failed,
\* or whose progress request failed, ends with BtcApiException.
C10_HandleErrorAlwaysRaises ==
    /\ heLast \in {"none", "BtcApiException"}
    /\ (heDepth = 0 /\ heLast # "none" /\ heCtx # "cancel")
            => (pc = "done" /\ Raised)
    /\ (pc = "done" /\ Fails(initResp)) => Raised
    /\ (pc = "done" /\ polls # <<>> /\ Fails(Last(polls))) => Raised

\* a progress request failed while the engine was unreachable for the
\* diagnostics too, and the call ended with BtcApiException
C10_Witness ==
    /\ pc = "done"
    /\ Len(polls) > 1
    /\ Last(polls) = TransportFail
    /\ nMsg > 1
    /\ outcome = "BtcApiException"

-----------------------------------------------------------------------------
(* Properties of error handling (SpecReq) *)

\* a response with a non-success status
ErrorStatus(r) == r # TransportFail /\ r # NoResp /\ ~Ok(r)

\* the body holds one of EXCLUDED_ERROR_MESSAGES
KnownBenign(r) == r.err = "benign"

\* the failure that ended the call: the request's own, or the latest
\* progress request
FailedResp == IF Fails(initResp) \/ polls = <<>> THEN initResp ELSE Last(polls)

\* C11: a non-success response without a known-benign message enters the
\* error-correlation routine, which raises: the call ends with
\* BtcApiException (and with the diagnostics fetched unless the message is one
\* of the two specially explained ones).  A non-success response with a
\* known-benign message raises nothing, enters no error correlation, fetches
\* no diagnostics and is the response returned to the caller.
C11_BenignErrorsReturned ==
    /\ (pc = "done" /\ ErrorStatus(FailedResp) /\ ~KnownBenign(FailedResp))
            => /\ Raised
               /\ heLast = "BtcApiException"
               /\ heCtx \in {"clr", "poll1", "loop"}
               /\ ErrKind(FailedResp) = "other" => nMsg >= 1
    /\ (pc = "done" /\ ErrorStatus(initResp) /\ KnownBenign(initResp))
            => /\ outcome = "returned"
               /\ retResp = initResp
               /\ heLast = "none"
               /\ nMsg = 0
               /\ polls = <<>>
    /\ (pc = "done" /\ polls # <<>> /\ ErrorStatus(Last(polls))
            /\ KnownBenign(Last(polls)))
            => /\ outcome = "returned"
               /\ retResp = Last(polls)
               /\ cancels = <<>> => (heLast = "none" /\ nMsg = 0)

\* the request is answered 400 "The compiler is already defined" and the
\* response is returned
C11_Witness ==
    /\ pc = "done"
    /\ initResp = Resp(400, "benign", FALSE)
    /\ outcome = "returned"
    /\ retResp = initResp
    /\ nMsg = 0
    /\ heLast = "none"

\* C12 as stated: no failure raises before the root cause was logged, the
\* engine messages since the message marker were requested and the ERROR
\* entries of the engine log were read.
C12_DiagnosticsAlways ==
    Raised => ({"cause", "log"} \subseteq diag /\ nMsg >= 1)

\* C12, amended: a failure whose text is neither the resource-not-found nor
\* the malformed-request message raises only after the root cause was logged,
\* the engine messages since the message marker were requested and the ERROR
\* entries of the engine log were read; a resource-not-found or
\* malformed-request failure raises after its targeted explanation alone,
\* without a message request and without reading the log.
C12_DiagnosticsUnlessSpecial ==
    Raised =>
        IF ErrKind(FailedResp) = "other"
        THEN {"cause", "log"} \subseteq diag /\ nMsg >= 1
        ELSE diag = {"explained"} /\ nMsg = 0

\* a request answered 500 raised after the root cause, the fetched messages
\* and the log entries were sent to the log
C12_Witness ==
    /\ pc = "done"
    /\ Raised
    /\ initResp = Resp(500, "other", FALSE)
    /\ diag = {"cause", "messages", "log"}

-----------------------------------------------------------------------------
(* Properties of _apply_preferences (SpecPrefs) *)

\* the PUTs of the batch and of its preferences (not the one of set_compiler)
PrefPuts == SelectSeq(puts, LAMBDA r : r.kind # "compiler")

\* C13: of the PUTs that carry the batch or one of its preferences, the first
\* is the full batch and it is sent exactly once; single PUTs are sent only
\* after the batch PUT failed, one per preference of the batch and in batch
\* order; at the end M successes leave N-M failures reported, and no
\* exception leaves _apply_preferences.
C13_BatchThenIndividually ==
    LET q == PrefPuts IN
    /\ aexc = "none"
    /\ (apc = "done" /\ hasPrefs) => q # <<>>
    /\ q # <<>> =>
        /\ q[1].kind = "batch"
        /\ q[1].body = preferences
        /\ \A i \in 2..Len(q) :
            /\ q[i].kind = "single"
            /\ ~q[1].ok
            /\ i - 1 <= Len(preferences)
            /\ q[i].body = <<preferences[i - 1]>>
        /\ apc = "done" =>
            /\ Len(q) = IF q[1].ok THEN 1 ELSE 1 + Len(preferences)
            /\ ~q[1].ok =>
                /\ successfully_applied
                        = Cardinality({i \in 2..Len(q) : q[i].ok})
                /\ failedReports = Len(preferences) - successfully_applied

\* the scenario of the specification: the batch of N = 4 preferences fails,
\* M = 2 single PUTs succeed and 2 failures are reported
C13_Witness ==
    /\ apc = "done"
    /\ Len(preferences) = 4
    /\ ~PrefPuts[1].ok
    /\ successfully_applied = 2
    /\ failedReports = 2

-----------------------------------------------------------------------------
(* Properties of _find_next_port (SpecPort) *)

\* the ports from the starting port on with no listener
FreePorts == {p \in initial_port..PORT_MAX : ~InUse(p)}

\* C14: when every probe answers, the search returns the smallest port from
\* the starting port on with no listener, and fails (raises) when every port
\* from the starting port through 65535 has a listener.
C14_SmallestFreePort ==
    (fpc = "done" /\ errAt = 0)
        => IF FreePorts # {}
           THEN /\ fexc = "none"
                /\ fresult \in FreePorts
                /\ \A p \in FreePorts : fresult <= p
           ELSE fexc # "none"

\* the starting port and the next one are busy, the third is returned
C14_Witness ==
    /\ fpc = "done"
    /\ errAt = 0
    /\ fexc = "none"
    /\ fresult = initial_port + 2
    /\ Len(probed) = 3

\* C15: when every port from the starting port through 65535 has a
\* listener, the search ends with BtcApiException 'No open port found.' and
\* every port it probed lies in startPort..65535.
C15_ExhaustionRaisesNoOpenPort ==
    (fpc = "done" /\ errAt = 0 /\ FreePorts = {})
        => /\ fexc = "BtcApiException"
           /\ \A i \in 1..Len(probed) : probed[i] \in initial_port..PORT_MAX

\* C16: when a probe raises at any step of the search, the search returns
\* the starting port and the error of the probe does not reach the caller.
C16_ProbeErrorReturnsStartPort ==
    (fpc = "done" /\ probeErr # "none")
        => (fexc = "none" /\ fresult = initial_port)

-----------------------------------------------------------------------------
(* Properties of a profile-load GET (SpecProf) *)

\* what the caller wrote is read one way only: the path was URL-encoded by
\* the caller, or it holds none of % & ?
Unambiguous == preEncoded \/ \A i \in 1..Len(profPath) : profPath[i] \notin {37, 38, 63}

\* C18: a profile-load GET on the local host whose project file does not
\* exist ends in a fatal error (exit(1)) before any HTTP request is issued
\* and before a watcher thread is started; a load that does not end in an
\* error issues its HTTP request.
C18_MissingProfileIsFatal ==
    /\ (ppc # "call" /\ isLocal /\ ~fileExists /\ profPath # <<>> /\ Unambiguous)
            => (pexc = "SystemExit" /\ ppc = "done" /\ httpSent = <<>> /\ watchers = 0)
    /\ (ppc = "done" /\ pexc = "none") => (Len(httpSent) = 1 /\ watchers = 1)

\* the scenario of the specification: the project file g/g is not on the
\* local host
C18_Witness ==
    /\ ppc = "done"
    /\ isLocal
    /\ ~fileExists
    /\ profStyle = "openprofile"
    /\ profPath = <<103, 47, 103>>
    /\ pexc = "SystemExit"
    /\ httpSent = <<>>
    /\ watchers = 0

\* C19: whichever form the caller used, the outgoing path starts with
\* profiles/ when the version is below "25.3p0" and with openprofile?path=
\* when it is "25.3p0" or later.
C19_OutgoingFormFollowsVersion ==
    (ppc # "call" /\ pexc = "none")
        => IF StrLess(version, V25_3p0)
           THEN StartsWith(url_combined, S_profiles)
           ELSE StartsWith(url_combined, S_openprofilePath)

\* C20: the outgoing path is the path URL-encoded once, whether the caller
\* wrote the path itself or its URL-encoded form: in both cases the
\* translation succeeds and gives the prefix of the form followed by the
\* path encoded once.
C20_EncodedExactlyOnce ==
    (ppc # "call" /\ (fileExists \/ ~isLocal))
        => /\ pexc = "none"
           /\ url_combined \in {S_profiles \o Quote(profPath),
                                S_openprofilePath \o Quote(profPath)}

-----------------------------------------------------------------------------
(* Nested error handling (SpecReq, SpecReqFair) *)

\* C25: an invocation of _handle_error under another one (the message
\* request of the outer one failed) raises at once: a step taken while a
\* nested frame is the innermost one is the guard's raise; it is neither a
\* message request nor a scan of the log
C25_NestedRaisesImmediately ==
    [][(pc = "he" /\ heDepth >= 2)
        => /\ heStage = "enter"
           /\ nMsg' = nMsg
           /\ heDepth' = heDepth - 1]_vars

\* C26: when the request itself could not be sent, the call ends with
\* BtcApiException, and on the way there are never more than three
\* _handle_error frames on the stack nor more than two message requests
C26_CorrelationBounded ==
    /\ [](heDepth <= 3 /\ nMsg <= 2)
    /\ [](initResp = TransportFail => <>(pc = "done" /\ Raised))

\* the engine is unreachable throughout: the request and both message
\* requests failed, and the call is over
C26_Witness ==
    /\ pc = "done"
    /\ initResp = TransportFail
    /\ nMsg = 2
    /\ Raised

\* C28: progress requests are issued only after a response with status 202
\* and a job id, and a response of the request with another status is what
\* the caller gets back
C28_PollingOnlyOn202 ==
    /\ polls # <<>> => (initResp.status = 202 /\ initResp.job)
    /\ (outcome = "returned" /\ initResp.status # 202) => retResp = initResp

-----------------------------------------------------------------------------
(* The startup wait (SpecLifeFair) *)

\* C27: _connect_within_timeout ends: it goes on to another cycle only
\* after a failed probe seen no later than the timeout since the start of
\* the session (a successful probe returns, a later failed one raises), and
\* the wait is always left
C27_ConnectTerminates ==
    /\ []((lpc = "connect" /\ obs.seen)
            => (~obs.ok /\ obs.elapsed <= startupTimeout))
    /\ [](lpc = "connect" => <>(lpc # "connect"))

\* the wait went through a cycle, slept, and its next probe failed after
\* the timeout
C27_Witness ==
    /\ lpc = "failed"
    /\ lexc = "BtcApiException"
    /\ nProbes >= 2
    /\ obs.seen
    /\ ~obs.ok
    /\ obs.alive = "unchecked"
    /\ obs.elapsed > startupTimeout

-----------------------------------------------------------------------------
(* The compiler preference (SpecPrefs) *)

CompilerPuts == {i \in DOMAIN puts : puts[i].kind = "compiler"}

GenericPuts == DOMAIN puts \ CompilerPuts

Names(body) == {body[j].preferenceName : j \in DOMAIN body}

\* C29: GENERAL_COMPILER_SETTING is in no PUT of the generic path, batch or
\* single; it goes out in a PUT of set_compiler, which holds nothing else
\* and precedes the batch; and set_compiler raises nothing: _apply_preferences
\* goes on to the batch after a compiler PUT that failed
C29_CompilerApart ==
    /\ \A i \in GenericPuts : "GENERAL_COMPILER_SETTING" \notin Names(puts[i].body)
    /\ \A i \in CompilerPuts :
        /\ Names(puts[i].body) = {"GENERAL_COMPILER_SETTING"}
        /\ \A j \in GenericPuts : i < j
    /\ aexc = "none"
    /\ (apc = "done" /\ hasPrefs)
        => /\ \E j \in GenericPuts : puts[j].kind = "batch"
           /\ (CompilerPuts # {}
                <=> \E k \in DOMAIN keys : keys[k] = "GENERAL_COMPILER_SETTING")

\* the compiler PUT failed and the batch was sent after it
C29_Witness ==
    /\ apc = "done"
    /\ \E i \in CompilerPuts : ~puts[i].ok
    /\ \E j \in GenericPuts : puts[j].kind = "batch" /\ Len(puts[j].body) > 0

-----------------------------------------------------------------------------
(* The secondary port (SpecMl) *)

\* C30: in the command line of a launch on Windows the port of the scripting
\* bridge (-Dep.runtime.api.port) differs from the REST port
\* (-Dep.rest.port), whatever the port given to the constructor and whatever
\* port the session moved to before the launch
C30_SecondaryPortDiffers ==
    mpc = "launched" => apiArg # restArg

-----------------------------------------------------------------------------
(* The order of the messages (SpecMsgs) *)

\* C21: what get_messages returns holds the messages the engine sent, each
\* once; when every date parses it is in ascending order of the parsed
\* dates, and when one does not it is, as a whole, in ascending order of the
\* raw date texts
C21_SortedByDateOrRaw ==
    (gpc = "done" /\ hasMarker /\ msgFetch = "list")
        => /\ Len(msgResult) = Len(engineMsgs)
           /\ {msgResult[i] : i \in DOMAIN msgResult}
                = {engineMsgs[i] : i \in DOMAIN engineMsgs}
           /\ IF \A i \in DOMAIN engineMsgs : ParseDate(engineMsgs[i].date) # Unparsed
              THEN \A i, j \in DOMAIN msgResult :
                        i < j => ParseDate(msgResult[i].date) <= ParseDate(msgResult[j].date)
              ELSE \A i, j \in DOMAIN msgResult :
                        i < j => ~StrLess(msgResult[j].date, msgResult[i].date)

\* three messages whose dates parse came back in another order than they
\* were sent, and not in the order of their texts
C21_Witness ==
    /\ gpc = "done"
    /\ Len(msgResult) = 3
    /\ \A i \in DOMAIN msgResult : ParseDate(msgResult[i].date) # Unparsed
    /\ msgResult # engineMsgs
    /\ \E i, j \in DOMAIN msgResult : i < j /\ StrLess(msgResult[j].date, msgResult[i].date)

-----------------------------------------------------------------------------
(* The entries of the log file (SpecLog) *)

\* the timestamp lines that are recent, contain ERROR and are not excluded
Qualifying ==
    {i \in DOMAIN logFile :
        /\ logFile[i].stamp
        /\ logFile[i].error
        /\ ~logFile[i].excluded
        /\ (logStart = 0 \/ logFile[i].t > logStart)}

\* the k-th of them in file order
NthQualifying(k) == CHOOSE i \in Qualifying : Cardinality({j \in Qualifying : j < i}) = k - 1

\* the lines between timestamp line i and the next timestamp line
Continuations(i) ==
    {j \in DOMAIN logFile :
        /\ j > i
        /\ \A m \in (i + 1)..j : ~logFile[m].stamp}

\* the lines of the file of which something is in the entry
LinesIn(entry) ==
    UNION {{entry[n][m].line : m \in DOMAIN entry[n]} : n \in DOMAIN entry}

\* C22: the entries returned are, in file order, one for each timestamp line
\* that is recent, contains ERROR and is not excluded; an entry starts with
\* its timestamp line, holds nothing but that line and its continuation
\* lines, and holds each of its continuation lines that has text and is not
\* a stack frame; the lines after another timestamp line are in no entry
C22_OneEntryPerErrorLine ==
    lgpc = "done"
        => /\ Len(cleaned_log_entries) = Cardinality(Qualifying)
           /\ \A k \in DOMAIN cleaned_log_entries :
                LET i == NthQualifying(k)
                    entry == cleaned_log_entries[k]
                IN  /\ entry # <<>>
                    /\ entry[1] = <<Piece(i, "stamp")>>
                    /\ LinesIn(entry) \subseteq {i} \cup Continuations(i)
                    /\ \A j \in Continuations(i) :
                            logFile[j].kind = "plain" => j \in LinesIn(entry)

-----------------------------------------------------------------------------
(* The watcher flag (SpecWatch) *)

\* C23: under every interleaving of the caller and the watcher threads, a
\* watcher that was signalled done ends at its next polling cycle, with the
\* helper process active or not: no watcher goes on to another cycle after
\* the signal, whatever watcher starts later
C23_SignalNeverLost ==
    \A w \in Watchers : ~wmissed[w]

\* C24: once a request that is no profile request has ended while the
\* watcher of a profile load, in either form, was running, that watcher has
\* been signalled done
C24_NextRequestSignals ==
    \A w \in Watchers : wafter[w] => wsignalled[w]

-----------------------------------------------------------------------------
(* Recent entries and stack frames (SpecLog) *)

\* the timestamp lines an entry of the result starts with
Heads == {cleaned_log_entries[k][1][1].line : k \in DOMAIN cleaned_log_entries}

\* C32: get_errors_from_log returns an entry for an ERROR line that is not
\* excluded exactly when the timestamp of the line is greater than or equal
\* to the start time: a line stamped with the start time itself is recent
C32_RecentFromStartTime ==
    lgpc = "done"
        => Heads = {i \in DOMAIN logFile :
                        /\ logFile[i].stamp
                        /\ logFile[i].error
                        /\ ~logFile[i].excluded
                        /\ (logStart = 0 \/ logFile[i].t >= logStart)}

\* C32, as the code has it: an ERROR line that is not excluded gives an
\* entry exactly when its timestamp is later than the start time (or no
\* start time is given); a line stamped with the start time itself does not
C32_RecentAfterStartTime ==
    lgpc = "done"
        => Heads = {i \in DOMAIN logFile :
                        /\ logFile[i].stamp
                        /\ logFile[i].error
                        /\ ~logFile[i].excluded
                        /\ (logStart = 0 \/ logFile[i].t > logStart)}

\* an ERROR line stamped with the start time was left out and a later one
\* was returned
C32_Witness ==
    /\ lgpc = "done"
    /\ logStart > 0
    /\ \E i \in DOMAIN logFile :
        /\ logFile[i].stamp /\ logFile[i].error /\ ~logFile[i].excluded
        /\ logFile[i].t = logStart
        /\ i \notin Heads
    /\ \E i \in Heads : logFile[i].t > logStart

\* C33: no entry of the result holds text of a continuation line that
\* starts with 'at ', however many continuation lines the entry has and in
\* whatever order, and every other continuation line with text is kept
C33_StackFramesStripped ==
    lgpc = "done"
        => \A k \in DOMAIN cleaned_log_entries :
            LET entry == cleaned_log_entries[k]
                i == entry[1][1].line
            IN  /\ \A j \in LinesIn(entry) : logFile[j].kind # "at"
                /\ \A j \in Continuations(i) :
                        logFile[j].kind = "plain" => j \in LinesIn(entry)

-----------------------------------------------------------------------------
(* The names of the batch (SpecPrefs) *)

\* C38: the batch _apply_preferences sends names every preference at most
\* once, whatever the configured preferences and the version
C38_OneEntryPerName ==
    \A i \in DOMAIN puts :
        puts[i].kind = "batch"
            => \A m, n \in DOMAIN puts[i].body :
                    puts[i].body[m].preferenceName = puts[i].body[n].preferenceName
                        => m = n

-----------------------------------------------------------------------------
(* The order of construction (SpecLife) *)

\* C31: when the first preferences request of a construction is issued, a
\* health probe has succeeded and the version of the session is recorded on
\* the session (self.version)
C31_PrefsAfterVersion ==
    prefsSent = "sent"
        => /\ versionSet
           /\ (actively_started => (obs.seen /\ obs.ok))

\* C36: from the launch on, the port of the session's probes and requests
\* is the REST port the launched process was told to serve on
C36_PortIsLaunchPort ==
    actively_started => port = ownPort

-----------------------------------------------------------------------------
(* The end of close_application (SpecCloseFair) *)

\* C37: for a session that launched the engine, the loop of
\* close_application is left and the call returns, when the launched process
\* exits after the force-quit request or a signal
C37_CloseReturns ==
    [](lpc = "closewait" /\ actively_started => <>(lpc = "closed"))

\* the same for a session whose port is the port of the engine it launched
C37_CloseReturns_OwnPort ==
    [](lpc = "closewait" /\ actively_started /\ port = ownPort
            /\ ~Busy(port)
        => <>(lpc = "closed"))

-----------------------------------------------------------------------------
(* The message marker (SpecMark) *)

\* C34: whenever the marker is set, its value is not later than the moment
\* at which it is set, so every message the engine produces afterwards is
\* dated at or after the marker
C34_MarkerNotLater ==
    /\ message_marker_date <= NowMs(markedAt)
    /\ \A d \in produced : message_marker_date <= d

\* C35: for a request whose path starts with '/' or 'ep/', the session does
\* what it does for the path that starts directly with the resource: same
\* URL, same marker reset, same existence check and translation, same
\* watchers
C35_PrefixIrrelevant ==
    mreq.method # "none"
        => mreq.did = Did(mreq.method, mreq.resource, mreq.v, mreq.exists)

-----------------------------------------------------------------------------
(* The lock of the port registry (SpecLock, SpecLockFair) *)

\* C39: at most one process at a time is between its acquisition of the
\* lock and the end of its clearPortRegLock, however long a holder keeps the
\* lock, and clearPortRegLock never removes the lock of another process
C39_MutualExclusion ==
    /\ Cardinality({p \in Procs : rpc[p] \in Holding}) <= 1
    /\ ~clearedOther

\* C40: a process waiting in reservePortRegLock eventually acquires the lock
\* and its call returns True, also when the holder never clears and also
\* after a lost race of the creation
C40_WaiterAcquires ==
    \A p \in Procs :
        [](rpc[p] \in Waiting => <>(rpc[p] = "holding" /\ rret[p] = "True"))

=============================================================================
